---- MODULE Spec2Model ----
(***************************************************************************)
(* Model of the balloon / hurricane proximity engine of                    *)
(* src/src/lib/proximityAnalysis.ts.                                        *)
(*                                                                         *)
(* Geometry.  Coordinates are integers on a planar grid whose unit is      *)
(* GridKm kilometres; a position is <<longitude, latitude>> as in GeoJSON.  *)
(* The turf.js primitives the code calls (booleanPointInPolygon,           *)
(* nearestPointOnLine + distance, pointToLineDistance) are modelled by     *)
(* their planar counterparts, and a distance is a whole number of          *)
(* kilometres (rounded down).  An extrapolated position can be a fraction: *)
(* it is carried as a numerator pair with a common denominator s.          *)
(*                                                                         *)
(* Time.  Timestamps and the wall clock are whole hours.                   *)
(*                                                                         *)
(* The engine keeps no state between calls, so the state of the model is   *)
(* the call in progress: the operation, its arguments and its result.      *)
(***************************************************************************)
EXTENDS Integers, Sequences, FiniteSets, TLC

(***************************************************************************)
(* Bounds of the model                                                     *)
(***************************************************************************)
MaxPoints == 3      \* samples in all the trails of one call, together
MaxList == 3        \* length of a caller-supplied intersection list
FetchHours == 3     \* hourly files fetchBalloonData requests (24 in the code)
MaxStorms == 2      \* storms in the list of the NHC
MaxHourLength == 3  \* characters of the hour parameter of the balloon-data route
MaxFrames == 3      \* frames of one animation before its 30 seconds are over

\* src/src/lib/proximityAnalysis.ts:4
RISK_THRESHOLD_KM == 100

\* kilometres per grid unit: the threshold is two units
GridKm == RISK_THRESHOLD_KM \div 2

\* the last hour of the prediction loop, proximityAnalysis.ts:223
HorizonHours == 48

(***************************************************************************)
(* Small helpers                                                           *)
(***************************************************************************)
Min(a, b) == IF a <= b THEN a ELSE b
Max(a, b) == IF a >= b THEN a ELSE b

RECURSIVE ISqrtBetween(_, _, _)
\* the largest r in lo..hi with r*r <= n (lo*lo <= n < (hi+1)*(hi+1))
ISqrtBetween(n, lo, hi) ==
  IF lo >= hi THEN lo
  ELSE LET mid == (lo + hi + 1) \div 2
       IN IF mid * mid <= n THEN ISqrtBetween(n, mid, hi)
                            ELSE ISqrtBetween(n, lo, mid - 1)

\* the integer square root of 0 <= n < 2^31
ISqrt(n) ==
  IF n < 65536 THEN ISqrtBetween(n, 0, 255) ELSE ISqrtBetween(n, 256, 46340)

RECURSIVE Concat(_)
\* the concatenation of a sequence of sequences
Concat(ss) == IF ss = <<>> THEN <<>> ELSE Head(ss) \o Concat(Tail(ss))

(***************************************************************************)
(* turf.js primitives, planar.  A point is <<x, y>> / s.                   *)
(***************************************************************************)
\* p lies on the closed segment a-b (all in units of 1/s; a, b pre-scaled)
OnSegment(px, py, ax, ay, bx, by) ==
  /\ (bx - ax) * (py - ay) = (by - ay) * (px - ax)
  /\ Min(ax, bx) <= px /\ px <= Max(ax, bx)
  /\ Min(ay, by) <= py /\ py <= Max(ay, by)

\* the edge a-b is crossed by the ray from p towards +x
CrossesRay(px, py, ax, ay, bx, by) ==
  /\ (ay > py) # (by > py)
  /\ IF by > ay
       THEN (px - ax) * (by - ay) < (bx - ax) * (py - ay)
       ELSE (px - ax) * (by - ay) > (bx - ax) * (py - ay)

\* the ring's edges meet p, or an odd number of them cross the ray from p
PointInRing(px, py, s, ring) ==
  LET E == 1 .. (Len(ring) - 1)
      ax(i) == ring[i][1] * s
      ay(i) == ring[i][2] * s
      bx(i) == ring[i + 1][1] * s
      by(i) == ring[i + 1][2] * s
  IN \/ \E i \in E : OnSegment(px, py, ax(i), ay(i), bx(i), by(i))
     \/ Cardinality({i \in E : CrossesRay(px, py, ax(i), ay(i), bx(i), by(i))}) % 2 = 1

\* inside the exterior ring (boundary included) and in no hole
PointInRings(px, py, s, rings) ==
  /\ Len(rings) >= 1
  /\ PointInRing(px, py, s, rings[1])
  /\ \A h \in 2 .. Len(rings) : ~PointInRing(px, py, s, rings[h])

\* turf.booleanPointInPolygon: every polygon of a MultiPolygon counts
booleanPointInPolygon(px, py, s, geometry) ==
  IF geometry.type = "Polygon"
    THEN PointInRings(px, py, s, geometry.coordinates)
    ELSE \E k \in 1 .. Len(geometry.coordinates) :
           PointInRings(px, py, s, geometry.coordinates[k])

\* squared distance (units of 1/s) from p to the closed segment a-b
SegmentDistSq(px, py, ax, ay, bx, by) ==
  LET ux == px - ax
      uy == py - ay
      wx == bx - ax
      wy == by - ay
      L == wx * wx + wy * wy
      d == ux * wx + uy * wy
  IN IF L = 0 \/ d <= 0 THEN ux * ux + uy * uy
     ELSE IF d >= L THEN (px - bx) * (px - bx) + (py - by) * (py - by)
     ELSE ((ux * ux + uy * uy) * L - d * d) \div L

RECURSIVE LineDistSqFrom(_, _, _, _, _)
\* least squared distance from p to the segments i, i+1, ... of a line
LineDistSqFrom(px, py, s, line, i) ==
  LET here == SegmentDistSq(px, py, line[i][1] * s, line[i][2] * s,
                            line[i + 1][1] * s, line[i + 1][2] * s)
  IN IF i >= Len(line) - 1 THEN here
     ELSE Min(here, LineDistSqFrom(px, py, s, line, i + 1))

\* kilometres from p to the nearest point of a line string of >= 2 vertices:
\* turf.distance(p, turf.nearestPointOnLine(line, p)) and
\* turf.pointToLineDistance(p, line)
LineDistanceKm(px, py, s, line) ==
  ISqrt((GridKm * GridKm * LineDistSqFrom(px, py, s, line, 1)) \div (s * s))

(***************************************************************************)
(* proximityAnalysis.ts                                                    *)
(***************************************************************************)
\* lines 180-194
calculateDistanceToPolygon(px, py, s, polygon) ==
  IF booleanPointInPolygon(px, py, s, polygon)
    THEN 0
    ELSE LET polygonCoords == IF polygon.type = "Polygon"
                                THEN polygon.coordinates[1]
                                ELSE polygon.coordinates[1][1]
         IN LineDistanceKm(px, py, s, polygonCoords)

\* lines 67-70
isPointInsidePolygon(point, polygon) ==
  booleanPointInPolygon(point.longitude, point.latitude, 1, polygon)

\* closestLoopDistance without the inside test: always the distance to the ring
closestLoopDistanceRingOnly(point, storm) ==
  LET polygonCoords == IF storm.geometry.type = "Polygon"
                         THEN storm.geometry.coordinates[1]
                         ELSE storm.geometry.coordinates[1][1]
  IN LineDistanceKm(point.longitude, point.latitude, 1, polygonCoords)

\* lines 38-56: the distance computed inside findClosestPointToStorm's loop
closestLoopDistance(point, storm) ==
  IF booleanPointInPolygon(point.longitude, point.latitude, 1, storm.geometry)
    THEN 0
    ELSE LET polygonCoords == IF storm.geometry.type = "Polygon"
                                THEN storm.geometry.coordinates[1]
                                ELSE storm.geometry.coordinates[1][1]
         IN LineDistanceKm(point.longitude, point.latitude, 1, polygonCoords)

RECURSIVE closestLoop(_, _, _, _)
\* lines 34-62: the forEach over trail.points from index i on; acc is
\* [found, point, distance], found = FALSE standing for closestPoint = null
\* and minDistance = Infinity
closestLoop(points, storm, i, acc) ==
  IF i > Len(points) THEN acc
  ELSE LET distance == closestLoopDistance(points[i], storm)
           next == IF ~acc.found \/ distance < acc.distance
                     THEN [found |-> TRUE, index |-> i, distance |-> distance]
                     ELSE acc
       IN closestLoop(points, storm, i + 1, next)

\* findClosestPointToStorm that retains the first sample whatever the distances
findClosestPointToStormFirst(trail, storm) ==
  IF trail.points = <<>> THEN [found |-> FALSE, index |-> 0, distance |-> 0]
  ELSE [found |-> TRUE, index |-> 1,
        distance |-> closestLoopDistance(trail.points[1], storm)]

\* lines 33-65; index names the retained sample, found = FALSE is null
findClosestPointToStorm(trail, storm) ==
  closestLoop(trail.points, storm, 1, [found |-> FALSE, index |-> 0, distance |-> 0])

\* proximityPair without the comparison with the threshold
proximityPairNoThreshold(trail, storm) ==
  LET closestPointResult == findClosestPointToStorm(trail, storm)
  IN IF closestPointResult.found
       THEN LET point == trail.points[closestPointResult.index]
            IN << [balloonId |-> trail.balloonId,
                   stormName |-> storm.properties.stormName,
                   closestDistance |-> closestPointResult.distance,
                   timestamp |-> point.timestamp,
                   altitude |-> point.altitude,
                   insideForcastCone |-> isPointInsidePolygon(point, storm.geometry)] >>
       ELSE <<>>

\* proximityPair without the null test: a trail without samples pushes an
\* alert of distance 0 that has no sample behind it
proximityPairNoNullCheck(trail, storm) ==
  LET closestPointResult == findClosestPointToStorm(trail, storm)
  IN IF closestPointResult.distance <= RISK_THRESHOLD_KM
       THEN IF closestPointResult.found
              THEN LET point == trail.points[closestPointResult.index]
                   IN << [balloonId |-> trail.balloonId,
                          stormName |-> storm.properties.stormName,
                          closestDistance |-> closestPointResult.distance,
                          timestamp |-> point.timestamp,
                          altitude |-> point.altitude,
                          insideForcastCone |->
                            isPointInsidePolygon(point, storm.geometry)] >>
              ELSE << [balloonId |-> trail.balloonId,
                       stormName |-> storm.properties.stormName,
                       closestDistance |-> 0,
                       timestamp |-> 0,
                       altitude |-> 0,
                       insideForcastCone |-> FALSE] >>
       ELSE <<>>

\* lines 15-26: what one (trail, storm) pair pushes on alerts
proximityPair(trail, storm) ==
  LET closestPointResult == findClosestPointToStorm(trail, storm)
  IN IF closestPointResult.found /\ closestPointResult.distance <= RISK_THRESHOLD_KM
       THEN LET point == trail.points[closestPointResult.index]
            IN << [balloonId |-> trail.balloonId,
                   stormName |-> storm.properties.stormName,
                   closestDistance |-> closestPointResult.distance,
                   timestamp |-> point.timestamp,
                   altitude |-> point.altitude,
                   insideForcastCone |-> isPointInsidePolygon(point, storm.geometry)] >>
       ELSE <<>>

\* lines 12-28: trail-major, storm-minor
proximityPushes(balloonTrails, stormCones) ==
  Concat([t \in 1 .. Len(balloonTrails) |->
            Concat([c \in 1 .. Len(stormCones) |->
                      proximityPair(balloonTrails[t], stormCones[c])])])

RECURSIVE insertByDistanceBeforeEqual(_, _)
\* insertByDistance of an unstable sort: x goes in front of its equals
insertByDistanceBeforeEqual(sorted, x) ==
  IF sorted = <<>> THEN <<x>>
  ELSE IF Head(sorted).closestDistance < x.closestDistance
         THEN <<Head(sorted)>> \o insertByDistanceBeforeEqual(Tail(sorted), x)
         ELSE <<x>> \o sorted

RECURSIVE insertByDistance(_, _)
\* x placed behind every element that does not compare greater (stable)
insertByDistance(sorted, x) ==
  IF sorted = <<>> THEN <<x>>
  ELSE IF Head(sorted).closestDistance <= x.closestDistance
         THEN <<Head(sorted)>> \o insertByDistance(Tail(sorted), x)
         ELSE <<x>> \o sorted

RECURSIVE sortByDistance(_)
\* line 30: Array.prototype.sort with (a, b) => a.closestDistance - b.closestDistance
sortByDistance(alerts) ==
  IF alerts = <<>> THEN <<>>
  ELSE insertByDistance(sortByDistance(SubSeq(alerts, 1, Len(alerts) - 1)),
                        alerts[Len(alerts)])

\* lines 6-31
analyzeProximity(balloonTrails, stormCones) ==
  sortByDistance(proximityPushes(balloonTrails, stormCones))

\* lines 224-238: minDistance and distanceToCone of the iteration `hours`.  The
\* balloon is predicted at <<lastPoint.longitude * timeDiff + dLon * hours,
\* lastPoint.latitude * timeDiff + dLat * hours>> / timeDiff  (timeDiff > 0)
futureStep(lastPoint, storm, track, timeDiff, dLon, dLat, hours) ==
  LET bx == lastPoint.longitude * timeDiff + dLon * hours
      by == lastPoint.latitude * timeDiff + dLat * hours
      distanceToCone == calculateDistanceToPolygon(bx, by, timeDiff, storm.geometry)
      \* distanceToTrack stays Infinity without a LineString track
      hasTrack == track.found /\ track.geometry.type = "LineString"
  IN [distanceToCone |-> distanceToCone,
      minDistance |-> IF hasTrack
                        THEN Min(distanceToCone,
                                 LineDistanceKm(bx, by, timeDiff, track.geometry.coordinates))
                        ELSE distanceToCone]

\* futureLoop without the break: one intersection for every qualifying hour
futureLoopNoBreak(balloonTrail, storm, track, riskThreshold, now, timeDiff, dLon, dLat) ==
  LET lastPoint == balloonTrail.points[Len(balloonTrail.points)]
  IN Concat([hours \in 1 .. HorizonHours |->
       LET step == futureStep(lastPoint, storm, track, timeDiff, dLon, dLat, hours)
       IN IF step.minDistance <= riskThreshold
            THEN << [balloonId |-> balloonTrail.balloonId,
                     stormName |-> storm.properties.stormName,
                     intersectionType |-> "future",
                     closestDistance |-> step.minDistance,
                     timestamp |-> now + hours,
                     altitude |-> lastPoint.altitude,
                     insideForcastCone |-> step.distanceToCone <= riskThreshold,
                     hoursFromNow |-> hours] >>
            ELSE <<>>])

\* futureLoop that counts the hours from the last sample instead of from now
futureLoopFromLastSample(balloonTrail, storm, track, riskThreshold, now, timeDiff, dLon, dLat) ==
  LET lastPoint == balloonTrail.points[Len(balloonTrail.points)]
      hit(hours) ==
        futureStep(lastPoint, storm, track, timeDiff, dLon, dLat, hours).minDistance
          <= riskThreshold
  IN IF \A hours \in 1 .. HorizonHours : ~hit(hours) THEN <<>>
     ELSE LET hours == CHOOSE h \in 1 .. HorizonHours :
                         hit(h) /\ \A k \in 1 .. (h - 1) : ~hit(k)
              step == futureStep(lastPoint, storm, track, timeDiff, dLon, dLat, hours)
          IN << [balloonId |-> balloonTrail.balloonId,
                 stormName |-> storm.properties.stormName,
                 intersectionType |-> "future",
                 closestDistance |-> step.minDistance,
                 timestamp |-> lastPoint.timestamp + hours,
                 altitude |-> lastPoint.altitude,
                 insideForcastCone |-> step.distanceToCone <= riskThreshold,
                 hoursFromNow |-> hours] >>

\* futureLoop that goes on after a hit and keeps the last one
futureLoopLastHit(balloonTrail, storm, track, riskThreshold, now, timeDiff, dLon, dLat) ==
  LET lastPoint == balloonTrail.points[Len(balloonTrail.points)]
      hit(hours) ==
        futureStep(lastPoint, storm, track, timeDiff, dLon, dLat, hours).minDistance
          <= riskThreshold
  IN IF \A hours \in 1 .. HorizonHours : ~hit(hours) THEN <<>>
     ELSE LET hours == CHOOSE h \in 1 .. HorizonHours :
                         hit(h) /\ \A k \in (h + 1) .. HorizonHours : ~hit(k)
              step == futureStep(lastPoint, storm, track, timeDiff, dLon, dLat, hours)
          IN << [balloonId |-> balloonTrail.balloonId,
                 stormName |-> storm.properties.stormName,
                 intersectionType |-> "future",
                 closestDistance |-> step.minDistance,
                 timestamp |-> now + hours,
                 altitude |-> lastPoint.altitude,
                 insideForcastCone |-> step.distanceToCone <= riskThreshold,
                 hoursFromNow |-> hours] >>

\* lines 223-256: the for loop, left by `break` at the first hour whose
\* minDistance is within the threshold
futureLoop(balloonTrail, storm, track, riskThreshold, now, timeDiff, dLon, dLat) ==
  LET lastPoint == balloonTrail.points[Len(balloonTrail.points)]
      hit(hours) ==
        futureStep(lastPoint, storm, track, timeDiff, dLon, dLat, hours).minDistance
          <= riskThreshold
  IN IF \A hours \in 1 .. HorizonHours : ~hit(hours) THEN <<>>
     ELSE LET hours == CHOOSE h \in 1 .. HorizonHours :
                         hit(h) /\ \A k \in 1 .. (h - 1) : ~hit(k)
              step == futureStep(lastPoint, storm, track, timeDiff, dLon, dLat, hours)
          IN << [balloonId |-> balloonTrail.balloonId,
                 stormName |-> storm.properties.stormName,
                 intersectionType |-> "future",
                 closestDistance |-> step.minDistance,
                 timestamp |-> now + hours,
                 altitude |-> lastPoint.altitude,
                 insideForcastCone |-> step.distanceToCone <= riskThreshold,
                 hoursFromNow |-> hours] >>

\* findTrack that takes the first track, whatever its name
findTrackOfAnyName(stormTracks, stormName, i) ==
  IF i > Len(stormTracks) THEN [found |-> FALSE]
  ELSE [found |-> TRUE, geometry |-> stormTracks[i].geometry]

RECURSIVE findTrack(_, _, _)
\* line 220: Array.prototype.find, the first track of the storm's name
findTrack(stormTracks, stormName, i) ==
  IF i > Len(stormTracks) THEN [found |-> FALSE]
  ELSE IF stormTracks[i].properties.stormName = stormName
         THEN [found |-> TRUE, geometry |-> stormTracks[i].geometry]
         ELSE findTrack(stormTracks, stormName, i + 1)

\* lines 207-217: the velocity, of the last two samples (n >= 2), as the
\* differences and the hours they are divided by
trailVelocity(balloonTrail) ==
  LET n == Len(balloonTrail.points)
      lastPoint == balloonTrail.points[n]
      secondLastPoint == balloonTrail.points[n - 1]
  IN [timeDiff |-> lastPoint.timestamp - secondLastPoint.timestamp,
      latDelta |-> lastPoint.latitude - secondLastPoint.latitude,
      lonDelta |-> lastPoint.longitude - secondLastPoint.longitude]

\* analyzeFutureTrajectoryIntersections that takes a trail of one sample for a
\* balloon at rest instead of returning at once
analyzeFutureTrajectoryIntersectionsAtRest(balloonTrail, storm, stormTracks, riskThreshold, now) ==
  LET n == Len(balloonTrail.points)
      stormTrack == findTrack(stormTracks, storm.properties.stormName, 1)
  IN IF n < 1 THEN [threw |-> FALSE, list |-> <<>>]
     ELSE IF n = 1
       THEN [threw |-> FALSE,
             list |-> futureLoop(balloonTrail, storm, stormTrack, riskThreshold,
                                 now, 1, 0, 0)]
     ELSE
       LET timeDiff == trailVelocity(balloonTrail).timeDiff
           dLat == trailVelocity(balloonTrail).latDelta
           dLon == trailVelocity(balloonTrail).lonDelta
       IN IF timeDiff = 0
            THEN IF dLat = 0 \/ dLon = 0
                   THEN [threw |-> TRUE, list |-> <<>>]
                   ELSE [threw |-> FALSE, list |-> <<>>]
            ELSE [threw |-> FALSE,
                  list |-> futureLoop(balloonTrail, storm, stormTrack, riskThreshold,
                                      now, timeDiff, dLon, dLat)]

\* lines 196-259; the parameter now is the clock read at line 203
\* (new Date()).  The result is [threw, list]: threw = TRUE when turf.point
\* rejects a NaN coordinate (0 / 0 from two last samples of equal timestamp
\* and equal latitude or longitude); with equal timestamps and both
\* coordinates different the velocity is +-Infinity, every distance is NaN
\* and no comparison with the threshold succeeds.
analyzeFutureTrajectoryIntersections(balloonTrail, storm, stormTracks, riskThreshold, now) ==
  LET n == Len(balloonTrail.points)
  IN IF n < 2 THEN [threw |-> FALSE, list |-> <<>>]
     ELSE
       LET timeDiff == trailVelocity(balloonTrail).timeDiff
           dLat == trailVelocity(balloonTrail).latDelta
           dLon == trailVelocity(balloonTrail).lonDelta
           stormTrack == findTrack(stormTracks, storm.properties.stormName, 1)
       IN IF timeDiff = 0
            THEN IF dLat = 0 \/ dLon = 0
                   THEN [threw |-> TRUE, list |-> <<>>]
                   ELSE [threw |-> FALSE, list |-> <<>>]
            ELSE [threw |-> FALSE,
                  list |-> futureLoop(balloonTrail, storm, stormTrack, riskThreshold,
                                      now, timeDiff, dLon, dLat)]

\* samplePushes that takes a sample of the present hour for a future one
samplePushesStrictPast(trail, storm, riskThreshold, now) ==
  Concat([i \in 1 .. Len(trail.points) |->
    LET point == trail.points[i]
        distance == calculateDistanceToPolygon(point.longitude, point.latitude, 1,
                                               storm.geometry)
        hoursFromNow == point.timestamp - now
    IN IF distance <= riskThreshold
         THEN << [balloonId |-> trail.balloonId,
                  stormName |-> storm.properties.stormName,
                  intersectionType |-> IF hoursFromNow < 0 THEN "past" ELSE "future",
                  closestDistance |-> distance,
                  timestamp |-> point.timestamp,
                  altitude |-> point.altitude,
                  insideForcastCone |->
                    booleanPointInPolygon(point.longitude, point.latitude, 1,
                                          storm.geometry),
                  hoursFromNow |-> hoursFromNow] >>
         ELSE <<>>])

\* samplePushes that keeps the first qualifying sample of the trail only
samplePushesFirstOnly(trail, storm, riskThreshold, now) ==
  LET qualifies(i) ==
        calculateDistanceToPolygon(trail.points[i].longitude, trail.points[i].latitude,
                                   1, storm.geometry) <= riskThreshold
  IN Concat([i \in 1 .. Len(trail.points) |->
       LET point == trail.points[i]
           hoursFromNow == point.timestamp - now
       IN IF qualifies(i) /\ \A k \in 1 .. (i - 1) : ~qualifies(k)
            THEN << [balloonId |-> trail.balloonId,
                     stormName |-> storm.properties.stormName,
                     intersectionType |-> IF hoursFromNow <= 0 THEN "past" ELSE "future",
                     closestDistance |->
                       calculateDistanceToPolygon(point.longitude, point.latitude, 1,
                                                  storm.geometry),
                     timestamp |-> point.timestamp,
                     altitude |-> point.altitude,
                     insideForcastCone |->
                       booleanPointInPolygon(point.longitude, point.latitude, 1,
                                             storm.geometry),
                     hoursFromNow |-> hoursFromNow] >>
            ELSE <<>>])

\* lines 111-133: what the samples of one trail push for one storm
samplePushes(trail, storm, riskThreshold, now) ==
  Concat([i \in 1 .. Len(trail.points) |->
    LET point == trail.points[i]
        distance == calculateDistanceToPolygon(point.longitude, point.latitude, 1,
                                               storm.geometry)
        hoursFromNow == point.timestamp - now
    IN IF distance <= riskThreshold
         THEN << [balloonId |-> trail.balloonId,
                  stormName |-> storm.properties.stormName,
                  intersectionType |-> IF hoursFromNow <= 0 THEN "past" ELSE "future",
                  closestDistance |-> distance,
                  timestamp |-> point.timestamp,
                  altitude |-> point.altitude,
                  insideForcastCone |->
                    booleanPointInPolygon(point.longitude, point.latitude, 1,
                                          storm.geometry),
                  hoursFromNow |-> hoursFromNow] >>
         ELSE <<>>])

\* lines 109-138: one (trail, storm) pair, samples first, then the prediction
\* lines 131-137: the predictions of a pair are pushed after its samples
pushFutureIntersections(pushed, futureIntersections) ==
  [threw |-> futureIntersections.threw, list |-> pushed \o futureIntersections.list]

intersectionPair(trail, storm, stormTracks, riskThreshold, now) ==
  pushFutureIntersections(
    samplePushes(trail, storm, riskThreshold, now),
    analyzeFutureTrajectoryIntersections(trail, storm, stormTracks, riskThreshold, now))

\* analyzeHurricaneIntersections without its sort: the order of the pushes
orderOfPushes(list) == list

RECURSIVE insertByHours(_, _)
insertByHours(sorted, x) ==
  IF sorted = <<>> THEN <<x>>
  ELSE IF Head(sorted).hoursFromNow <= x.hoursFromNow
         THEN <<Head(sorted)>> \o insertByHours(Tail(sorted), x)
         ELSE <<x>> \o sorted

RECURSIVE sortByHours(_)
\* line 141: Array.prototype.sort with (a, b) => a.hoursFromNow - b.hoursFromNow
sortByHours(list) ==
  IF list = <<>> THEN <<>>
  ELSE insertByHours(sortByHours(SubSeq(list, 1, Len(list) - 1)), list[Len(list)])

\* lines 139-142: the sorted list of what the pairs pushed; an exception of
\* a prediction leaves the call without result
sortedIntersections(pairs) ==
  IF \E k \in 1 .. Len(pairs) : pairs[k].threw
    THEN [threw |-> TRUE, list |-> <<>>]
    ELSE [threw |-> FALSE,
          list |-> sortByHours(Concat([k \in 1 .. Len(pairs) |-> pairs[k].list]))]

\* lines 99-142
analyzeHurricaneIntersections(balloonTrails, stormCones, stormTracks, riskThreshold, now) ==
  sortedIntersections(
    Concat([t \in 1 .. Len(balloonTrails) |->
      [c \in 1 .. Len(stormCones) |->
         intersectionPair(balloonTrails[t], stormCones[c], stormTracks,
                          riskThreshold, now)]]))

\* lines 144-146
getPastIntersections(list) ==
  SelectSeq(list, LAMBDA intersection : intersection.intersectionType = "past")

\* getFutureIntersections that selects on hoursFromNow instead of the type
getFutureIntersectionsByHours(list) ==
  SelectSeq(list, LAMBDA intersection : intersection.hoursFromNow > 0)

\* lines 148-150
getFutureIntersections(list) ==
  SelectSeq(list, LAMBDA intersection : intersection.intersectionType = "future")

\* lines 166-178; the parameter now is the clock read at line 167
\* getBalloonsByIntersectionType without the test of the type
getBalloonsOfAnyType(trails, list, type) ==
  SelectSeq(trails,
            LAMBDA trail : \E i \in 1 .. Len(list) : list[i].balloonId = trail.balloonId)

\* lines 152-164
getBalloonsByIntersectionType(trails, list, type) ==
  LET balloonIds == { list[i].balloonId :
                        i \in { j \in 1 .. Len(list) : list[j].intersectionType = type } }
  IN SelectSeq(trails, LAMBDA trail : trail.balloonId \in balloonIds)

\* getRecentTrajectory that drops the points at the cutoff itself
getRecentTrajectoryAfterCutoff(trail, hours, now) ==
  [trail EXCEPT !.points = SelectSeq(trail.points,
                                     LAMBDA point : point.timestamp > now - hours)]

\* lines 145, 149, 157-163 and 170-172: Array.prototype.filter and map build
\* new arrays, and lines 174-177 a new object; the array and the trail handed
\* in are what they were
afterFilter(array) == array

getRecentTrajectory(trail, hours, now) ==
  [trail EXCEPT !.points = SelectSeq(trail.points,
                                     LAMBDA point : point.timestamp >= now - hours)]

(***************************************************************************)
(* Inputs of the calls                                                     *)
(***************************************************************************)
\* rectangle ring, closed, from its lower-left and upper-right corners
Rect(x1, y1, x2, y2) == << <<x1, y1>>, <<x2, y1>>, <<x2, y2>>, <<x1, y2>>, <<x1, y1>> >>

\* a forecast cone as one Polygon
ConeAlpha ==
  [properties |-> [stormName |-> "ALPHA"],
   geometry |-> [type |-> "Polygon", coordinates |-> << Rect(0, 0, 2, 2) >>]]

\* a forecast cone as a MultiPolygon of two polygons
ConeBravo ==
  [properties |-> [stormName |-> "BRAVO"],
   geometry |-> [type |-> "MultiPolygon",
                 coordinates |-> << << Rect(10, 0, 12, 2) >>, << Rect(3, 3, 5, 5) >> >>]]

TrackAlpha ==
  [properties |-> [stormName |-> "ALPHA"],
   geometry |-> [type |-> "LineString", coordinates |-> << <<0, 10>>, <<8, 10>> >>]]

\* a track of a storm that has no cone
TrackZulu ==
  [properties |-> [stormName |-> "ZULU"],
   geometry |-> [type |-> "LineString", coordinates |-> << <<3, 0>>, <<3, 8>> >>]]

\* a forecast cone whose exterior ring is empty
ConeCharlie ==
  [properties |-> [stormName |-> "CHARLIE"],
   geometry |-> [type |-> "Polygon", coordinates |-> << <<>> >>]]

\* a MultiPolygon cone whose first polygon has an empty exterior ring
ConeDelta ==
  [properties |-> [stormName |-> "DELTA"],
   geometry |-> [type |-> "MultiPolygon",
                 coordinates |-> << << <<>> >>, << Rect(3, 3, 5, 5) >> >>]]

\* cone lists with a malformed cone
MalformedConeLists == << <<ConeCharlie>>, <<ConeAlpha, ConeCharlie>>,
                         <<ConeCharlie, ConeAlpha>>, <<ConeDelta>> >>

\* no exception
NoError == [name |-> "none", message |-> <<>>]

\* what turf.point throws on a coordinate that is not a number
PointError == [name |-> "Error", message |-> <<"coordinates must contain numbers">>]

\* what turf throws on an empty ring: the TypeError of booleanPointInPolygon
\* reading the first position of the ring or, in a build whose
\* booleanPointInPolygon answers false, the Error of turf.lineString
TurfRingErrors ==
  { [name |-> "TypeError", message |-> <<"Cannot read properties of undefined">>],
    [name |-> "Error",
     message |-> <<"coordinates must be an array of two or more positions">>] }

\* lines 47-49 and 187-189: the ring the boundary distance is taken to
exteriorRing(geometry) ==
  IF geometry.type = "Polygon" THEN geometry.coordinates[1]
  ELSE geometry.coordinates[1][1]

\* lines 12-15 and 37-53: some sample of some trail is measured against a
\* cone whose exterior ring is empty
measuresEmptyRing(trails, cones) ==
  \E t \in 1 .. Len(trails), c \in 1 .. Len(cones) :
    /\ Len(trails[t].points) > 0
    /\ exteriorRing(cones[c].geometry) = <<>>

ConeLists == << <<>>, <<ConeAlpha>>, <<ConeBravo>>, <<ConeAlpha, ConeBravo>>,
                <<ConeBravo, ConeAlpha>> >>

TrackLists == << <<>>, <<TrackAlpha>>, <<TrackZulu, TrackAlpha>>, <<TrackZulu>> >>

\* the storms of one analysis: [cones, tracks] as indices of the lists above
Scenarios == << <<1, 1>>, <<2, 1>>, <<5, 3>> >>

\* <<longitude, latitude>> of a sample: inside ALPHA; 100 km from it; 141 km
\* from its corner and inside the second polygon of BRAVO
Positions == { <<1, 1>>, <<4, 1>>, <<4, 4>> }

\* trails in one call
TrailCounts == {1, 2}

\* samples are hourly, but the last one of a trail may repeat the timestamp
\* of the one before it
LastGaps == {0, 1}

\* timestamp of the first sample of a trail
StartTime == Min(1, MaxPoints)

\* readings of the wall clock at a call
Nows == {StartTime, StartTime + 1}

Sample(pos, timestamp, i) ==
  [longitude |-> pos[1], latitude |-> pos[2], altitude |-> 10000 + 1000 * i,
   timestamp |-> timestamp]

\* the sample sequences of length n at the given positions, timestamps
\* non-decreasing: hourly, the last sample `g` hours after the one before it
PointSeqsOver(n, positions, gaps) ==
  IF n = 0 THEN { <<>> }
  ELSE { [i \in 1 .. n |->
            Sample(ps[i], StartTime + (IF i = n /\ n > 1 THEN i - 2 + g ELSE i - 1), i)] :
           ps \in [1 .. n -> positions], g \in (IF n > 1 THEN gaps ELSE {1}) }

PointSeqs(n) == PointSeqsOver(n, Positions, LastGaps)

BalloonId(k) == <<"balloon", k>>

\* the colour of the trail of balloon k
Color(k) == <<"hsl", 240 - k>>

RECURSIVE TrailListsFrom(_, _, _)
\* the lists of `count` trails, named from balloon k on, of at most `budget`
\* samples together
TrailListsFrom(k, count, budget) ==
  IF count = 0 THEN { <<>> }
  ELSE UNION { { << [balloonId |-> BalloonId(k), points |-> ps,
                       color |-> Color(k)] >> \o rest :
                   ps \in PointSeqs(n),
                   rest \in TrailListsFrom(k + 1, count - 1, budget - n) } :
               n \in 0 .. budget }

TrailLists == UNION { TrailListsFrom(1, count, MaxPoints) : count \in TrailCounts }

\* the trails of one balloon
BasicTrails == { tl[1] : tl \in TrailListsFrom(1, 1, MaxPoints) }

\* positions of the trails handed to the predictor alone: <<3, 1>> is one grid
\* step from <<4, 1>>, on the track ZULU
PredictorPositions == Positions \cup { <<3, 1>> }

\* hours between the last two samples of these trails.  One grid step in
\* HorizonHours \div 4 hours brings a balloon from <<4, 1>> to 100 km from the
\* first polygon of BRAVO in exactly HorizonHours hours; one hour more per
\* step and it gets there after the horizon
PredictorGaps == {0, 1, HorizonHours \div 4, HorizonHours \div 4 + 1}

\* positions of the samples before the last two, which the predictor reads
\* into its window and does not use
EarlierPositions == { <<1, 1>>, <<4, 4>> }

\* the trails handed to the predictor alone
SingleTrails ==
  { [balloonId |-> BalloonId(1), points |-> ps, color |-> Color(1)] :
      ps \in UNION { { qs \in PointSeqsOver(n, PredictorPositions, PredictorGaps) :
                         \A i \in 1 .. n - 2 :
                           <<qs[i].longitude, qs[i].latitude>> \in EarlierPositions } :
                     n \in 0 .. MaxPoints } }

\* the balloons of the trail lists handed to getBalloonsByIntersectionType:
\* balloon 3 has no intersection, and a caller may hand a trail twice
FilterBalloons == << <<>>, <<1>>, <<2>>, <<1, 2>>, <<2, 1>>, <<1, 1>>, <<1, 3, 2>> >>

\* the trail lists handed to getBalloonsByIntersectionType
FilterTrailLists ==
  { [i \in 1 .. Len(ks) |->
       [balloonId |-> BalloonId(ks[i]),
        points |-> << Sample(<<1, 1>>, StartTime, i) >>,
        color |-> Color(ks[i])]] :
      ks \in { FilterBalloons[b] : b \in 1 .. Len(FilterBalloons) } }

\* the hours handed to getRecentTrajectory
RecentHours == {0, 1}

\* intersections a caller may hand to the filters
CallerIntersections ==
  [balloonId : {BalloonId(1), BalloonId(2)}, stormName : {"ALPHA"},
   intersectionType : {"past", "future"}, closestDistance : {0},
   timestamp : {StartTime}, altitude : {10000}, insideForcastCone : {TRUE},
   hoursFromNow : {-1, 1}]

CallerLists == UNION { [1 .. n -> CallerIntersections] : n \in 0 .. MaxList }

(***************************************************************************)
(* fetchBalloonData: the trails built from the hourly files               *)
(***************************************************************************)
\* JSON values of a coordinate: a number, NaN, or a string
Num(v) == [kind |-> "number", v |-> v]
NaN == [kind |-> "NaN", v |-> 0]
Text == [kind |-> "string", v |-> 0]

Abs(x) == IF x < 0 THEN -x ELSE x

\* hourly records [latitude, longitude, altitude] of the first balloon: a
\* valid one, NaN and string latitudes, a longitude out of range, a record
\* without altitude
RecordsOfFirst ==
  { << Num(20), Num(-95), Num(15000) >>,
    << NaN, Num(-95), Num(15000) >>,
    << Text, Num(-95), Num(15000) >>,
    << Num(20), Num(181), Num(15000) >>,
    << Num(20), Num(-95) >> }

\* hourly records of the second balloon: one on the limits of both ranges,
\* one with a latitude out of range
RecordsOfSecond ==
  { << Num(90), Num(-180), Num(21000) >>,
    << Num(-91), Num(0), Num(21000) >> }

\* lines 291-300: the request failed, or its body could not be read
Failed == [ok |-> FALSE, isArray |-> FALSE, data |-> <<>>]

\* a body that is JSON but no array
NotAnArray == [ok |-> TRUE, isArray |-> FALSE, data |-> <<>>]

\* what one hourly request can come back with
HourlyResponses ==
  {Failed, NotAnArray} \cup
  { [ok |-> TRUE, isArray |-> TRUE, data |-> d] :
      d \in { <<>> } \cup { <<r>> : r \in RecordsOfFirst }
                     \cup { <<r, q>> : r \in RecordsOfFirst, q \in RecordsOfSecond } }

\* lines 343-353 without the tests of the ranges
isValidRecordOfAnyRange(balloonCoords) ==
  /\ Len(balloonCoords) >= 3
  /\ balloonCoords[1].kind = "number"
  /\ balloonCoords[2].kind = "number"

\* lines 343-353: the record has three entries and its latitude and
\* longitude are numbers, not NaN, within +-90 and +-180
isValidRecord(balloonCoords) ==
  /\ Len(balloonCoords) >= 3
  /\ balloonCoords[1].kind = "number"
  /\ balloonCoords[2].kind = "number"
  /\ ~(Abs(balloonCoords[1].v) > 90 \/ Abs(balloonCoords[2].v) > 180)

\* lines 304-309: the hours whose request succeeded, ascending
validHours(responses) ==
  SelectSeq([h \in 1 .. Len(responses) |-> h - 1], LAMBDA hour : responses[hour + 1].ok)

\* line 321: balloon-0000, balloon-0001, ...
FetchedBalloonId(balloonIndex) == <<"balloon", balloonIndex>>

\* lines 334-371: the points pushed to the trail of one balloon, in the order
\* of validResults.  Date.now() is read at each push and does not go back
\* between two pushes; it is one reading `now` here
pushedPoints(responses, validResults, balloonIndex, numBalloons, now) ==
  LET pushing ==
        SelectSeq(validResults,
                  LAMBDA hour :
                    /\ responses[hour + 1].isArray
                    /\ balloonIndex < Len(responses[hour + 1].data)
                    /\ balloonIndex < numBalloons
                    /\ isValidRecord(responses[hour + 1].data[balloonIndex + 1]))
  IN [i \in 1 .. Len(pushing) |->
        LET balloonCoords == responses[pushing[i] + 1].data[balloonIndex + 1]
        IN [latitude |-> balloonCoords[1], longitude |-> balloonCoords[2],
            altitude |-> balloonCoords[3],
            timestamp |-> now - ((Len(responses) - 1) - pushing[i]),
            balloonId |-> FetchedBalloonId(balloonIndex)]]

RECURSIVE insertByTimestamp(_, _)
insertByTimestamp(sorted, point) ==
  IF sorted = <<>> THEN <<point>>
  ELSE IF Head(sorted).timestamp <= point.timestamp
         THEN <<Head(sorted)>> \o insertByTimestamp(Tail(sorted), point)
         ELSE <<point>> \o sorted

RECURSIVE sortByTimestamp(_)
\* line 376: trail.points.sort by the time of the timestamp
sortByTimestamp(points) ==
  IF points = <<>> THEN <<>>
  ELSE insertByTimestamp(sortByTimestamp(SubSeq(points, 1, Len(points) - 1)),
                         points[Len(points)])

RECURSIVE sumOfAltitudes(_)
sumOfAltitudes(points) ==
  IF points = <<>> THEN 0 ELSE Head(points).altitude.v + sumOfAltitudes(Tail(points))

\* lines 268-273: the hue goes from 240 at the ground to 0 at 30 km
getAltitudeColor(altitude) == <<"hsl", 240 - (Min(altitude, 30000) * 240) \div 30000>>

\* lines 375-383: the points sorted, the colour from the average altitude
finishedTrail(balloonId, points) ==
  [balloonId |-> balloonId,
   points |-> sortByTimestamp(points),
   color |-> IF points = <<>> THEN "#0066cc"
             ELSE getAltitudeColor(sumOfAltitudes(points) \div Len(points))]

\* fetchBalloonData that returns every trail
everyTrail(trails) == trails

\* line 387: the trails with at least two points
validTrailsOf(trails) == SelectSeq(trails, LAMBDA trail : Len(trail.points) >= 2)

\* lines 277-394, responses[hour + 1] being what the request of `hour` came
\* back with
fetchBalloonData(responses, now) ==
  LET validResults == validHours(responses)
  IN IF validResults = <<>> \/ ~responses[validResults[1] + 1].isArray THEN <<>>
     ELSE LET numBalloons == Len(responses[validResults[1] + 1].data)
          IN validTrailsOf(
               [k \in 1 .. numBalloons |->
                  finishedTrail(FetchedBalloonId(k - 1),
                                pushedPoints(responses, validResults, k - 1,
                                             numBalloons, now))])

(***************************************************************************)
(* fetchActiveStorms: cones and tracks of the storms of the NHC            *)
(***************************************************************************)
\* generateMockStormData, stormData.ts lines 115-229
MockStormData == [cones |-> <<ConeAlpha, ConeBravo>>, tracks |-> <<TrackAlpha>>]

\* how the request of a storm's KMZ can end: the storm names no KMZ, the
\* response is not ok, the request or its body throws, the GeoJSON has no
\* LineString feature, or it has one
KmzOutcomes == {"no url", "not ok", "threw", "no LineString", "LineString"}

\* the storms of the list: Erin a tropical storm, Fred of category 5
NHCStorms ==
  { [valid |-> TRUE, name |-> n[1], intensity |-> n[2], longitudeNumeric |-> n[3],
     latitudeNumeric |-> n[4], kmz |-> k] :
      n \in { <<"ERIN", 60, -70, 25>>, <<"FRED", 157, -90, 20>> }, k \in KmzOutcomes }

\* an entry of the list that is no storm object: reading it throws
NoStorm ==
  [valid |-> FALSE, name |-> "", intensity |-> 0, longitudeNumeric |-> 0,
   latitudeNumeric |-> 0, kmz |-> "no url"]

\* stormData.ts lines 52-62: what the request of the storm list can come to
ListResponses ==
  { [kind |-> k, storms |-> <<>>] : k \in {"not ok", "threw", "null", "no array"} }
  \cup { [kind |-> "list", storms |-> storms] :
           storms \in UNION { [1 .. n -> NHCStorms \cup {NoStorm}] : n \in 0 .. MaxStorms } }

\* lines 262-270: the radius of the cone, in tenths of a degree
coneRadius(intensity) ==
  IF intensity >= 157 THEN 12
  ELSE IF intensity >= 130 THEN 10
  ELSE IF intensity >= 111 THEN 8
  ELSE IF intensity >= 96 THEN 6
  ELSE IF intensity >= 74 THEN 5
  ELSE 3

\* lines 257-298: the cone around the centre of the storm, in tenths of a
\* degree; the circle of 33 points is its bounding square here
createSimpleConeFromPoint(storm) ==
  [properties |-> [stormName |-> storm.name],
   geometry |-> [type |-> "Polygon",
                 coordinates |->
                   << Rect(storm.longitudeNumeric * 10 - coneRadius(storm.intensity),
                           storm.latitudeNumeric * 10 - coneRadius(storm.intensity),
                           storm.longitudeNumeric * 10 + coneRadius(storm.intensity),
                           storm.latitudeNumeric * 10 + coneRadius(storm.intensity)) >>]]

\* lines 231-255; found = FALSE is null
fetchTrackFromKMZ(storm) ==
  IF storm.kmz = "LineString"
    THEN [found |-> TRUE,
          track |-> [properties |-> [stormName |-> storm.name],
                     geometry |-> [type |-> "LineString",
                                   coordinates |->
                                     << <<storm.longitudeNumeric * 10,
                                          storm.latitudeNumeric * 10>>,
                                        <<storm.longitudeNumeric * 10 + 20,
                                          storm.latitudeNumeric * 10 + 30>> >>]]]
    ELSE [found |-> FALSE]

\* lines 72-97: the cones pushed in the loop over the storms
pushedCones(activeStorms) ==
  LET created == SelectSeq(activeStorms, LAMBDA storm : storm.valid)
  IN [i \in 1 .. Len(created) |-> createSimpleConeFromPoint(created[i])]

\* lines 72-97: the tracks pushed in the loop over the storms
pushedTracks(activeStorms) ==
  LET tracked == SelectSeq(activeStorms,
                           LAMBDA storm : /\ storm.valid
                                          /\ storm.kmz # "no url"
                                          /\ fetchTrackFromKMZ(storm).found)
  IN [i \in 1 .. Len(tracked) |-> fetchTrackFromKMZ(tracked[i]).track]

\* the mock storms as fetchActiveStorms returns them
mockStormResult ==
  [cones |-> MockStormData.cones, tracks |-> MockStormData.tracks, isRealData |-> FALSE]

\* fetchActiveStorms that returns whatever the loop pushed
pushedStormResult(cones, tracks) ==
  [cones |-> cones, tracks |-> tracks, isRealData |-> TRUE]

\* lines 99-105
loopStormResult(cones, tracks) ==
  IF cones = <<>> /\ tracks = <<>> THEN mockStormResult
  ELSE [cones |-> cones, tracks |-> tracks, isRealData |-> TRUE]

\* lines 47-112; a list that is no array throws at line 66 and ends in the
\* catch block
fetchActiveStorms(response) ==
  IF response.kind \in {"not ok", "threw", "null", "no array"} THEN mockStormResult
  ELSE IF response.storms = <<>> THEN mockStormResult
  ELSE loopStormResult(pushedCones(response.storms), pushedTracks(response.storms))

(***************************************************************************)
(* The balloon-data route.  A string is the sequence of its characters.    *)
(***************************************************************************)
DigitValue == [c \in {"0", "1", "2", "3", "4", "5", "6", "7", "8", "9"} |->
                 CASE c = "0" -> 0 [] c = "1" -> 1 [] c = "2" -> 2 [] c = "3" -> 3
                   [] c = "4" -> 4 [] c = "5" -> 5 [] c = "6" -> 6 [] c = "7" -> 7
                   [] c = "8" -> 8 [] c = "9" -> 9]

IsDigit(c) == c \in DOMAIN DigitValue

\* characters of an hour parameter: digits, a letter, a path separator, a
\* blank and a sign
HourCharacters == {"0", "1", "2", "4", "a", "/", " ", "-"}

\* the hour parameter of a request: absent, or a string
HourParameters ==
  { [present |-> FALSE, value |-> <<>>] }
  \cup { [present |-> TRUE, value |-> v] :
           v \in UNION { [1 .. n -> HourCharacters] : n \in 0 .. MaxHourLength } }

RECURSIVE leadingDigits(_)
\* the longest prefix of digits
leadingDigits(str) ==
  IF str = <<>> \/ ~IsDigit(Head(str)) THEN <<>>
  ELSE <<Head(str)>> \o leadingDigits(Tail(str))

RECURSIVE decimalValue(_)
decimalValue(digits) ==
  IF digits = <<>> THEN 0
  ELSE decimalValue(SubSeq(digits, 1, Len(digits) - 1)) * 10
         + DigitValue[digits[Len(digits)]]

RECURSIVE trimStart(_)
trimStart(str) ==
  IF str # <<>> /\ Head(str) = " " THEN trimStart(Tail(str)) ELSE str

\* parseInt of JavaScript on these characters: leading blanks and one sign
\* are skipped, the digits that follow are read and the rest is ignored;
\* without a digit there the result is NaN
parseInt(str) ==
  LET trimmed == trimStart(str)
      negative == trimmed # <<>> /\ Head(trimmed) = "-"
      digits == leadingDigits(IF negative THEN Tail(trimmed) ELSE trimmed)
  IN IF digits = <<>> THEN [isNaN |-> TRUE, value |-> 0]
     ELSE [isNaN |-> FALSE,
           value |-> IF negative THEN -decimalValue(digits) ELSE decimalValue(digits)]

\* String.prototype.padStart(2, '0')
padStart2(str) ==
  IF Len(str) >= 2 THEN str
  ELSE IF Len(str) = 1 THEN <<"0">> \o str
  ELSE <<"0", "0">>

\* how the request to the upstream service can end
UpstreamOutcomes == {"ok", "not ok", "threw"}

\* no request to the upstream service
NoUpstream == [requested |-> FALSE, fileName |-> <<>>]

\* the route that hands on the number it parsed
fileNameOfNumber(hour) ==
  padStart2(IF parseInt(hour).value < 10
              THEN << CHOOSE c \in DOMAIN DigitValue : DigitValue[c] = parseInt(hour).value >>
              ELSE << CHOOSE c \in DOMAIN DigitValue :
                        DigitValue[c] = parseInt(hour).value \div 10,
                      CHOOSE c \in DOMAIN DigitValue :
                        DigitValue[c] = parseInt(hour).value % 10 >>)

\* route.ts line 80
fileNameOf(hour) == padStart2(hour)

\* route.ts lines 59-133: the status of the answer and the upstream request
\* made; 404 stands for the status of an upstream answer that is not ok
balloonDataRoute(hour, upstream) ==
  IF ~hour.present \/ hour.value = <<>>
    THEN [status |-> 400, upstream |-> NoUpstream]
  ELSE IF \/ parseInt(hour.value).isNaN
          \/ parseInt(hour.value).value < 0
          \/ parseInt(hour.value).value > 23
    THEN [status |-> 400, upstream |-> NoUpstream]
  ELSE [status |-> CASE upstream = "ok" -> 200
                     [] upstream = "not ok" -> 404
                     [] upstream = "threw" -> 500,
        upstream |-> [requested |-> TRUE, fileName |-> fileNameOf(hour.value)]]

(***************************************************************************)
(* loadData of the map: what the sources can deliver                       *)
(***************************************************************************)
\* trail lists as fetchBalloonData and generateMockBalloonData build them:
\* at least one trail, every trail with two samples or more, an hour apart
HourlyTrailLists(k) ==
  { tl \in UNION { TrailListsFrom(k, count, MaxPoints) : count \in TrailCounts } :
      \A t \in 1 .. Len(tl) :
        /\ Len(tl[t].points) >= 2
        /\ \A i \in 1 .. Len(tl[t].points) - 1 :
             tl[t].points[i].timestamp < tl[t].points[i + 1].timestamp }

\* what fetchBalloonData can resolve to: no trail, or trails of balloon-0000 on
FetchedTrailLists == { <<>> } \cup HourlyTrailLists(0)

\* what generateMockBalloonData can return: trails of balloon-1 on, drifting
\* less than a grid step
MockTrailLists ==
  { tl \in HourlyTrailLists(1) :
      \A t \in 1 .. Len(tl) : \A i \in 1 .. Len(tl[t].points) :
        /\ tl[t].points[i].longitude = tl[t].points[1].longitude
        /\ tl[t].points[i].latitude = tl[t].points[1].latitude }

\* what fetchActiveStorms can resolve to: the mock storms, or cones and
\* tracks of the storms of the NHC list, among them a cone turf fails on
ActiveStormResults ==
  { [cones |-> MockStormData.cones, tracks |-> MockStormData.tracks,
     isRealData |-> FALSE],
    [cones |-> <<ConeAlpha>>, tracks |-> <<>>, isRealData |-> TRUE],
    [cones |-> <<ConeBravo, ConeAlpha>>, tracks |-> <<TrackAlpha>>, isRealData |-> TRUE],
    [cones |-> <<ConeAlpha, ConeCharlie>>, tracks |-> <<>>, isRealData |-> TRUE] }

\* loadData that analyses what the API delivered, be it nothing
deliveredBalloons(delivered, mockBalloons, useRealBalloons) == delivered

\* BalloonRiskMap.tsx lines 104-108 and 119-120: the balloons the try block
\* of loadData sets and analyses
usedBalloons(delivered, mockBalloons, useRealBalloons) ==
  IF delivered = <<>> /\ useRealBalloons THEN mockBalloons ELSE delivered

\* the switches of config/app: useRealBalloons() and useRealHurricanes()
Configs == [useRealBalloons : BOOLEAN, useRealHurricanes : BOOLEAN]

(***************************************************************************)
(* State: the call in progress                                             *)
(***************************************************************************)
VARIABLES
  op,             \* "idle" or the function that has returned
  balloonTrails,  \* argument: the trails
  stormCones,     \* argument: the cones
  stormTracks,    \* argument: the tracks
  now,            \* the wall clock read by the call
  alerts,         \* result of analyzeProximity
  intersections,  \* result of analyzeHurricaneIntersections, the filters' argument
  predicted,      \* result of analyzeFutureTrajectoryIntersections
  threw,          \* the call ended with an exception
  error,          \* the exception it ended with, NoError without one
  pastList,       \* result of getPastIntersections
  futureList,     \* result of getFutureIntersections
  velocity,       \* the velocity the predictor computed, <<>> when it computed none
  recent,         \* result of getRecentTrajectory, <<>> before it
  type,           \* argument of getBalloonsByIntersectionType, "" before it
  filteredTrails, \* result of getBalloonsByIntersectionType
  passed,         \* what the caller handed to a projection, as it was at the call
  responses,      \* what the hourly requests of fetchBalloonData came back with
  validTrails,    \* result of fetchBalloonData
  config,         \* the switches loadData reads
  isLoading,      \* state of the map: the load is under way
  balloons,       \* local of loadData: what the balloon source delivered
  usingRealStorms,  \* state of the map: the storms are those of the NHC
  displayTrails,  \* state of the map: the trails drawn
  activeStorms,   \* what the request of the storm list came to
  fetchedStorms,  \* result of fetchActiveStorms
  hourParameter,  \* the hour parameter of a request to the balloon-data route
  routeAnswer,    \* status of its answer and the upstream request it made
  selectedBalloonForAnimation,  \* the trail to animate, <<>> for null
  isAnimating,
  animationProgress,  \* [progress |-> frame], <<>> for null
  animationRef,   \* animationRef.current: a timer id, 0 for null
  timers,         \* the pending timeouts: [id, frame] of the callback to run
  camera          \* what moved the map last

vars == << op, balloonTrails, stormCones, stormTracks, now, alerts, intersections,
           predicted, threw, error, pastList, futureList, velocity, recent, type,
           filteredTrails, passed, responses, validTrails, config, isLoading,
           balloons, usingRealStorms, displayTrails, activeStorms, fetchedStorms,
           hourParameter, routeAnswer, selectedBalloonForAnimation, isAnimating,
           animationProgress, animationRef, timers, camera >>

\* nothing handed in
NoConfig == [useRealBalloons |-> FALSE, useRealHurricanes |-> FALSE]

NoArguments == [balloonTrails |-> <<>>, intersections |-> <<>>]

Init ==
  /\ op = "idle"
  /\ balloonTrails = <<>>
  /\ stormCones = <<>>
  /\ stormTracks = <<>>
  /\ now = 0
  /\ alerts = <<>>
  /\ intersections = <<>>
  /\ predicted = <<>>
  /\ threw = FALSE
  /\ error = NoError
  /\ pastList = <<>>
  /\ futureList = <<>>
  /\ velocity = <<>>
  /\ recent = <<>>
  /\ type = ""
  /\ filteredTrails = <<>>
  /\ passed = NoArguments
  /\ responses = <<>>
  /\ validTrails = <<>>
  /\ config = NoConfig
  /\ isLoading = TRUE
  /\ balloons = <<>>
  /\ usingRealStorms = FALSE
  /\ displayTrails = <<>>
  /\ activeStorms = <<>>
  /\ fetchedStorms = <<>>
  /\ hourParameter = <<>>
  /\ routeAnswer = <<>>
  /\ selectedBalloonForAnimation = <<>>
  /\ isAnimating = FALSE
  /\ animationProgress = <<>>
  /\ animationRef = 0
  /\ timers = {}
  /\ camera = "initial"

\* BalloonRiskMap.tsx loadData: analyzeProximity(balloons, storms.cones)
CallAnalyzeProximity ==
  /\ op = "idle"
  /\ \E tl \in TrailLists, c \in 1 .. Len(ConeLists) :
       /\ balloonTrails' = tl
       /\ stormCones' = ConeLists[c]
       /\ alerts' = analyzeProximity(tl, ConeLists[c])
  /\ op' = "analyzeProximity"
  /\ UNCHANGED << stormTracks, now, intersections, predicted, threw, error, pastList,
                  futureList,
                  velocity, recent,
                  type, filteredTrails, passed,
                  responses, validTrails,
                  config, isLoading, balloons, usingRealStorms, displayTrails,
                  activeStorms, fetchedStorms,
                  hourParameter, routeAnswer,
                  selectedBalloonForAnimation, isAnimating, animationProgress,
                  animationRef, timers, camera >>

\* BalloonRiskMap.tsx loadData, lines 123-127: both analyses of the same
\* balloons and storms, analyzeProximity(balloons, storms.cones) and then
\* analyzeHurricaneIntersections(balloons, storms.cones, storms.tracks)
CallAnalyses ==
  /\ op = "idle"
  /\ \E tl \in TrailLists, sc \in 1 .. Len(Scenarios), clock \in Nows :
       \* r is what analyzeHurricaneIntersections returns
       \E r \in { analyzeHurricaneIntersections(tl, ConeLists[Scenarios[sc][1]],
                                                TrackLists[Scenarios[sc][2]],
                                                RISK_THRESHOLD_KM, clock) } :
          /\ balloonTrails' = tl
          /\ stormCones' = ConeLists[Scenarios[sc][1]]
          /\ stormTracks' = TrackLists[Scenarios[sc][2]]
          /\ now' = clock
          /\ alerts' = analyzeProximity(tl, ConeLists[Scenarios[sc][1]])
          /\ intersections' = r.list
          /\ threw' = r.threw
          /\ error' = IF r.threw THEN PointError ELSE NoError
  /\ op' = "analyses"
  /\ UNCHANGED << predicted, pastList, futureList, velocity, recent,
                  type, filteredTrails, passed,
                  responses, validTrails,
                  config, isLoading, balloons, usingRealStorms, displayTrails,
                  activeStorms, fetchedStorms,
                  hourParameter, routeAnswer,
                  selectedBalloonForAnimation, isAnimating, animationProgress,
                  animationRef, timers, camera >>

\* one call of the trajectory predictor for a (trail, storm) pair
CallAnalyzeFutureTrajectoryIntersections ==
  /\ op = "idle"
  /\ \E trail \in SingleTrails, c \in {2, 3}, t \in 1 .. Len(TrackLists), clock \in Nows :
       \* r is what analyzeFutureTrajectoryIntersections returns
       \E r \in { analyzeFutureTrajectoryIntersections(trail, ConeLists[c][1], TrackLists[t],
                                                       RISK_THRESHOLD_KM, clock) } :
          /\ balloonTrails' = <<trail>>
          /\ stormCones' = ConeLists[c]
          /\ stormTracks' = TrackLists[t]
          /\ now' = clock
          /\ predicted' = r.list
          /\ threw' = r.threw
          /\ error' = IF r.threw THEN PointError ELSE NoError
          /\ velocity' = IF Len(trail.points) < 2 THEN <<>> ELSE trailVelocity(trail)
  /\ op' = "analyzeFutureTrajectoryIntersections"
  /\ UNCHANGED << alerts, intersections, pastList, futureList, recent,
                  type, filteredTrails, passed,
                  responses, validTrails,
                  config, isLoading, balloons, usingRealStorms, displayTrails,
                  activeStorms, fetchedStorms,
                  hourParameter, routeAnswer,
                  selectedBalloonForAnimation, isAnimating, animationProgress,
                  animationRef, timers, camera >>

\* BalloonRiskMap.tsx loadData, lines 130-131: getPastIntersections and
\* getFutureIntersections on the intersections the analysis returned
FilterAnalysed ==
  /\ op = "analyses"
  /\ ~threw
  /\ pastList' = getPastIntersections(intersections)
  /\ futureList' = getFutureIntersections(intersections)
  /\ passed' = [balloonTrails |-> <<>>, intersections |-> intersections]
  /\ intersections' = afterFilter(intersections)
  /\ op' = "filters"
  /\ UNCHANGED << balloonTrails, stormCones, stormTracks, now, alerts,
                  predicted, threw, error, velocity, recent,
                  type, filteredTrails,
                  responses, validTrails,
                  config, isLoading, balloons, usingRealStorms, displayTrails,
                  activeStorms, fetchedStorms,
                  hourParameter, routeAnswer,
                  selectedBalloonForAnimation, isAnimating, animationProgress,
                  animationRef, timers, camera >>

\* lines 144-150: the two exported filters on a list of the caller's
FilterCallerList ==
  /\ op = "idle"
  /\ \E list \in CallerLists :
       /\ passed' = [balloonTrails |-> <<>>, intersections |-> list]
       /\ intersections' = afterFilter(list)
       /\ pastList' = getPastIntersections(list)
       /\ futureList' = getFutureIntersections(list)
  /\ op' = "filters"
  /\ UNCHANGED << balloonTrails, stormCones, stormTracks, now, alerts, predicted,
                  threw, error, velocity, recent, type, filteredTrails,
                  responses, validTrails,
                  config, isLoading, balloons, usingRealStorms, displayTrails,
                  activeStorms, fetchedStorms,
                  hourParameter, routeAnswer,
                  selectedBalloonForAnimation, isAnimating, animationProgress,
                  animationRef, timers, camera >>

\* BalloonRiskMap.tsx line 188: getRecentTrajectory(trail, 5); the hours are
\* the caller's
CallGetRecentTrajectory ==
  /\ op = "idle"
  /\ \E trail \in BasicTrails, hours \in RecentHours, clock \in Nows :
       /\ passed' = [balloonTrails |-> <<trail>>, intersections |-> <<>>]
       /\ balloonTrails' = << afterFilter(trail) >>
       /\ now' = clock
       /\ recent' = << hours, getRecentTrajectory(trail, hours, clock) >>
  /\ op' = "getRecentTrajectory"
  /\ UNCHANGED << stormCones, stormTracks, alerts, intersections, predicted, threw, error,
                  pastList, futureList, velocity,
                  type, filteredTrails,
                  responses, validTrails,
                  config, isLoading, balloons, usingRealStorms, displayTrails,
                  activeStorms, fetchedStorms,
                  hourParameter, routeAnswer,
                  selectedBalloonForAnimation, isAnimating, animationProgress,
                  animationRef, timers, camera >>

\* BalloonRiskMap.tsx lines 183 and 187: getBalloonsByIntersectionType on
\* the trails and the intersections of the caller
CallGetBalloonsByIntersectionType ==
  /\ op = "idle"
  /\ \E trails \in FilterTrailLists, list \in CallerLists, t \in {"past", "future"} :
       /\ passed' = [balloonTrails |-> trails, intersections |-> list]
       /\ balloonTrails' = afterFilter(trails)
       /\ intersections' = afterFilter(list)
       /\ type' = t
       /\ filteredTrails' = getBalloonsByIntersectionType(trails, list, t)
  /\ op' = "getBalloonsByIntersectionType"
  /\ UNCHANGED << stormCones, stormTracks, now, alerts, predicted, threw, error,
                  pastList, futureList, velocity, recent,
                  responses, validTrails,
                  config, isLoading, balloons, usingRealStorms, displayTrails,
                  activeStorms, fetchedStorms,
                  hourParameter, routeAnswer,
                  selectedBalloonForAnimation, isAnimating, animationProgress,
                  animationRef, timers, camera >>

\* one call of fetchBalloonData, each hourly request ending its own way
CallFetchBalloonData ==
  /\ op = "idle"
  /\ \E rs \in [1 .. FetchHours -> HourlyResponses], clock \in Nows :
       /\ responses' = rs
       /\ now' = clock
       /\ validTrails' = fetchBalloonData(rs, clock)
  /\ op' = "fetchBalloonData"
  /\ UNCHANGED << balloonTrails, stormCones, stormTracks, alerts, intersections,
                  predicted, threw, error, pastList, futureList, velocity, recent,
                  type, filteredTrails, passed,
                  config, isLoading, balloons, usingRealStorms, displayTrails,
                  activeStorms, fetchedStorms,
                  hourParameter, routeAnswer,
                  selectedBalloonForAnimation, isAnimating, animationProgress,
                  animationRef, timers, camera >>

\* analyzeProximity on cones one of which has an empty exterior ring: the
\* first sample measured against that cone ends the call with the exception
\* of turf, and a call that measures no sample returns its alerts
CallAnalyzeProximityMalformed ==
  /\ op = "idle"
  /\ \E tl \in TrailLists, c \in 1 .. Len(MalformedConeLists) :
       /\ balloonTrails' = tl
       /\ stormCones' = MalformedConeLists[c]
       /\ IF measuresEmptyRing(tl, MalformedConeLists[c])
            THEN /\ threw' = TRUE
                 /\ error' \in TurfRingErrors
                 /\ alerts' = <<>>
            ELSE /\ threw' = FALSE
                 /\ error' = NoError
                 /\ alerts' = analyzeProximity(tl, MalformedConeLists[c])
  /\ op' = "analyzeProximity"
  /\ UNCHANGED << stormTracks, now, intersections, predicted, pastList, futureList,
                  velocity, recent,
                  type, filteredTrails, passed,
                  responses, validTrails,
                  config, isLoading, balloons, usingRealStorms, displayTrails,
                  activeStorms, fetchedStorms,
                  hourParameter, routeAnswer,
                  selectedBalloonForAnimation, isAnimating, animationProgress,
                  animationRef, timers, camera >>

\* one call of fetchActiveStorms, the requests ending their own ways
CallFetchActiveStorms ==
  /\ op = "idle"
  /\ \E response \in ListResponses :
       /\ activeStorms' = response
       /\ fetchedStorms' = fetchActiveStorms(response)
  /\ op' = "fetchActiveStorms"
  /\ UNCHANGED << balloonTrails, stormCones, stormTracks, now, alerts, intersections,
                  predicted, threw, error, pastList, futureList, velocity, recent,
                  type, filteredTrails, passed, responses, validTrails, config,
                  isLoading, balloons, usingRealStorms, displayTrails,
                  hourParameter, routeAnswer,
                  selectedBalloonForAnimation, isAnimating, animationProgress,
                  animationRef, timers, camera >>

\* one request to the balloon-data route
CallBalloonDataRoute ==
  /\ op = "idle"
  /\ \E hour \in HourParameters, upstream \in UpstreamOutcomes :
       /\ hourParameter' = hour
       /\ routeAnswer' = balloonDataRoute(hour, upstream)
  /\ op' = "balloonDataRoute"
  /\ UNCHANGED << balloonTrails, stormCones, stormTracks, now, alerts, intersections,
                  predicted, threw, error, pastList, futureList, velocity, recent,
                  type, filteredTrails, passed, responses, validTrails, config,
                  isLoading, balloons, usingRealStorms, displayTrails, activeStorms,
                  fetchedStorms,
                  selectedBalloonForAnimation, isAnimating, animationProgress,
                  animationRef, timers, camera >>

\* BalloonRiskMap.tsx lines 76-80: the effect of the mounted map starts
\* loadData, which sets isLoading and awaits the balloons
LoadDataStart ==
  /\ op = "idle"
  /\ \E c \in Configs, clock \in Nows :
       /\ config' = c
       /\ now' = clock
  /\ isLoading' = TRUE
  /\ op' = "loadData awaits balloons"
  /\ UNCHANGED << balloonTrails, stormCones, stormTracks, alerts, intersections,
                  predicted, threw, error, pastList, futureList, velocity, recent,
                  type, filteredTrails, passed, responses, validTrails, balloons,
                  usingRealStorms, displayTrails,
                  activeStorms, fetchedStorms,
                  hourParameter, routeAnswer,
                  selectedBalloonForAnimation, isAnimating, animationProgress,
                  animationRef, timers, camera >>

\* lines 82-89: fetchBalloonData resolves, or generateMockBalloonData returns;
\* loadData goes on to await the storms
LoadDataBalloons ==
  /\ op = "loadData awaits balloons"
  /\ balloons' \in (IF config.useRealBalloons THEN FetchedTrailLists ELSE MockTrailLists)
  /\ op' = "loadData awaits storms"
  /\ UNCHANGED << balloonTrails, stormCones, stormTracks, now, alerts, intersections,
                  predicted, threw, error, pastList, futureList, velocity, recent,
                  type, filteredTrails, passed, responses, validTrails, config,
                  isLoading, usingRealStorms, displayTrails,
                  activeStorms, fetchedStorms,
                  hourParameter, routeAnswer,
                  selectedBalloonForAnimation, isAnimating, animationProgress,
                  animationRef, timers, camera >>

\* lines 91-167: the storms arrive and loadData runs to its end.  `used` are
\* the balloons the try block analyses, mock ones when the API delivered
\* none; when an analysis throws, the catch block takes mock balloons it
\* generates anew and the mock storms
LoadDataFinish ==
  /\ op = "loadData awaits storms"
  /\ \E stormResult \in (IF config.useRealHurricanes
                           THEN ActiveStormResults
                           ELSE { [cones |-> MockStormData.cones,
                                   tracks |-> MockStormData.tracks,
                                   isRealData |-> FALSE] }),
        used \in { usedBalloons(balloons, fallback, config.useRealBalloons) :
                     fallback \in MockTrailLists } :
       /\ usingRealStorms' = stormResult.isRealData
       /\ IF measuresEmptyRing(used, stormResult.cones)
            THEN \E mockBalloons \in MockTrailLists :
                   /\ threw' = TRUE
                   /\ error' \in TurfRingErrors
                   /\ balloonTrails' = mockBalloons
                   /\ stormCones' = MockStormData.cones
                   /\ stormTracks' = MockStormData.tracks
                   /\ alerts' = analyzeProximity(mockBalloons, MockStormData.cones)
                   /\ UNCHANGED << intersections, displayTrails >>
            ELSE \E r \in { analyzeHurricaneIntersections(
                              used, stormResult.cones, stormResult.tracks,
                              RISK_THRESHOLD_KM, now) } :
                   IF r.threw
                     THEN \E mockBalloons \in MockTrailLists :
                            /\ threw' = TRUE
                            /\ error' = PointError
                            /\ balloonTrails' = mockBalloons
                            /\ stormCones' = MockStormData.cones
                            /\ stormTracks' = MockStormData.tracks
                            /\ alerts' = analyzeProximity(mockBalloons,
                                                          MockStormData.cones)
                            /\ UNCHANGED << intersections, displayTrails >>
                     ELSE /\ threw' = FALSE
                          /\ error' = NoError
                          /\ balloonTrails' = used
                          /\ stormCones' = stormResult.cones
                          /\ stormTracks' = stormResult.tracks
                          /\ alerts' = analyzeProximity(used, stormResult.cones)
                          /\ intersections' = r.list
                          /\ displayTrails' = used
  /\ isLoading' = FALSE
  /\ op' = "loaded"
  /\ UNCHANGED << now, predicted, pastList, futureList, velocity, recent, type,
                  filteredTrails, passed, responses, validTrails, config, balloons,
                  activeStorms, fetchedStorms,
                  hourParameter, routeAnswer,
                  selectedBalloonForAnimation, isAnimating, animationProgress,
                  animationRef, timers, camera >>

(***************************************************************************)
(* The animation controller of the map.  The map is mounted (mapRef.current *)
(* is set) and a click is handled, and the map rendered again, before the  *)
(* next click or timer callback runs.                                      *)
(***************************************************************************)
AnimationOps == {"selectRandomBalloon", "startAnimation", "animate",
                 "animation complete", "stopAnimation", "replayAnimation", "reset"}

\* everything the animation controller leaves alone
notOfAnimation == << stormCones, stormTracks, now, alerts, intersections, predicted,
                     threw, error, pastList, futureList, velocity, recent, type,
                     filteredTrails, passed, responses, validTrails, config, balloons,
                     usingRealStorms, displayTrails, activeStorms, fetchedStorms,
                     hourParameter, routeAnswer >>

\* setTimeout returns an id that no pending timeout and no kept reference
\* has; ids are compared for equality only
freshTimer == CHOOSE id \in 1 .. 4 * MaxFrames :
                /\ id # animationRef
                /\ \A t \in timers : t.id # id

\* the trails of a loaded map: those of the API or the mock ones
LoadedTrailLists == (FetchedTrailLists \cup MockTrailLists) \ { <<>> }

\* a Replay button that is never disabled
replayNeverDisabled(animating) == FALSE

\* BalloonRiskMap.tsx line 715: disabled={isAnimating}
replayDisabled(animating) == animating

\* lines 332-337, on the loaded map; the button is shown while no balloon is
\* selected (line 686)
SelectRandomBalloon ==
  /\ op \in {"idle"} \cup AnimationOps
  /\ selectedBalloonForAnimation = <<>>
  /\ \E trails \in (IF op = "idle" THEN LoadedTrailLists ELSE {balloonTrails}) :
       /\ trails # <<>>
       /\ balloonTrails' = trails
       /\ \E randomIndex \in 1 .. Len(trails) :
            selectedBalloonForAnimation' = trails[randomIndex]
  /\ isLoading' = FALSE
  /\ op' = "selectRandomBalloon"
  /\ UNCHANGED << isAnimating, animationProgress, animationRef, timers, camera >>
  /\ UNCHANGED notOfAnimation

\* lines 339-406: the first call of animate is made at once, with no time
\* elapsed; it shows the first position, moves the map and schedules itself
startAnimation ==
  /\ selectedBalloonForAnimation # <<>>
  /\ isAnimating' = TRUE
  /\ animationProgress' = [progress |-> 0]
  /\ camera' = "following"
  /\ timers' = timers \cup { [id |-> freshTimer, frame |-> 1] }
  /\ animationRef' = freshTimer
  /\ UNCHANGED << balloonTrails, isLoading, selectedBalloonForAnimation >>
  /\ UNCHANGED notOfAnimation

\* lines 698-704: the Start button is shown while nothing is animating
StartAnimation ==
  /\ op \in AnimationOps
  /\ ~isAnimating
  /\ startAnimation
  /\ op' = "startAnimation"

\* lines 427-431 and 713-719
ReplayAnimation ==
  /\ op \in AnimationOps
  /\ ~replayDisabled(isAnimating)
  /\ startAnimation
  /\ op' = "replayAnimation"

\* lines 353-403: a timeout fires before the 30 seconds are over
Animate ==
  /\ op \in AnimationOps
  /\ \E t \in timers :
       /\ t.frame < MaxFrames
       /\ animationProgress' = [progress |-> t.frame]
       /\ camera' = "following"
       /\ timers' = (timers \ {t}) \cup { [id |-> freshTimer, frame |-> t.frame + 1] }
       /\ animationRef' = freshTimer
  /\ op' = "animate"
  /\ UNCHANGED << balloonTrails, isLoading, selectedBalloonForAnimation, isAnimating >>
  /\ UNCHANGED notOfAnimation

\* lines 357-362: a timeout fires when the 30 seconds are over
AnimateComplete ==
  /\ op \in AnimationOps
  /\ \E t \in timers :
       timers' = timers \ {t}
  /\ isAnimating' = FALSE
  /\ animationProgress' = <<>>
  /\ op' = "animation complete"
  /\ UNCHANGED << balloonTrails, isLoading, selectedBalloonForAnimation, animationRef,
                  camera >>
  /\ UNCHANGED notOfAnimation

\* lines 408-425
stopAnimation ==
  /\ isAnimating' = FALSE
  /\ animationProgress' = <<>>
  /\ timers' = IF animationRef # 0 THEN { t \in timers : t.id # animationRef }
               ELSE timers
  /\ animationRef' = 0
  /\ camera' = "home"
  /\ UNCHANGED << balloonTrails, isLoading >>
  /\ UNCHANGED notOfAnimation

\* lines 705-711: the Stop button is shown while a balloon is animated
StopAnimation ==
  /\ op \in AnimationOps
  /\ selectedBalloonForAnimation # <<>>
  /\ isAnimating
  /\ stopAnimation
  /\ op' = "stopAnimation"
  /\ UNCHANGED selectedBalloonForAnimation

\* lines 720-728: the Reset button
ResetAnimation ==
  /\ op \in AnimationOps
  /\ selectedBalloonForAnimation # <<>>
  /\ selectedBalloonForAnimation' = <<>>
  /\ stopAnimation
  /\ op' = "reset"

\* the caller drops the result; the engine keeps nothing.  A map in the
\* middle of its load stays mounted; one mounted anew is loading
Return ==
  /\ op \notin {"idle", "loadData awaits balloons", "loadData awaits storms"}
  /\ op' = "idle"
  /\ balloonTrails' = <<>>
  /\ stormCones' = <<>>
  /\ stormTracks' = <<>>
  /\ now' = 0
  /\ alerts' = <<>>
  /\ intersections' = <<>>
  /\ predicted' = <<>>
  /\ threw' = FALSE
  /\ error' = NoError
  /\ pastList' = <<>>
  /\ futureList' = <<>>
  /\ velocity' = <<>>
  /\ recent' = <<>>
  /\ type' = ""
  /\ filteredTrails' = <<>>
  /\ passed' = NoArguments
  /\ responses' = <<>>
  /\ validTrails' = <<>>
  /\ config' = NoConfig
  /\ isLoading' = TRUE
  /\ balloons' = <<>>
  /\ usingRealStorms' = FALSE
  /\ displayTrails' = <<>>
  /\ activeStorms' = <<>>
  /\ fetchedStorms' = <<>>
  /\ hourParameter' = <<>>
  /\ routeAnswer' = <<>>
  /\ selectedBalloonForAnimation' = <<>>
  /\ isAnimating' = FALSE
  /\ animationProgress' = <<>>
  /\ animationRef' = 0
  /\ timers' = {}
  /\ camera' = "initial"

Next ==
  \/ CallAnalyzeProximity
  \/ CallAnalyses
  \/ CallAnalyzeFutureTrajectoryIntersections
  \/ FilterAnalysed
  \/ FilterCallerList
  \/ CallGetRecentTrajectory
  \/ CallAnalyzeProximityMalformed
  \/ CallGetBalloonsByIntersectionType
  \/ CallFetchBalloonData
  \/ CallFetchActiveStorms
  \/ CallBalloonDataRoute
  \/ SelectRandomBalloon
  \/ StartAnimation
  \/ ReplayAnimation
  \/ Animate
  \/ AnimateComplete
  \/ StopAnimation
  \/ ResetAnimation
  \/ LoadDataStart
  \/ LoadDataBalloons
  \/ LoadDataFinish
  \/ Return

Spec == Init /\ [][Next]_vars

\* the calls of analyzeProximity alone
NextProximity == CallAnalyzeProximity \/ Return
SpecProximity == Init /\ [][NextProximity]_vars

\* the analyses of loadData, the two filters and getRecentTrajectory
NextIntersections ==
  \/ CallAnalyses
  \/ FilterAnalysed
  \/ FilterCallerList
  \/ CallGetRecentTrajectory
  \/ Return
SpecIntersections == Init /\ [][NextIntersections]_vars

\* the projections of the results: the filters, getBalloonsByIntersectionType
\* and getRecentTrajectory
NextProjections ==
  \/ FilterCallerList
  \/ CallGetBalloonsByIntersectionType
  \/ CallGetRecentTrajectory
  \/ Return
SpecProjections == Init /\ [][NextProjections]_vars

\* the calls of fetchBalloonData
NextFetch == CallFetchBalloonData \/ Return
SpecFetch == Init /\ [][NextFetch]_vars

\* the calls of fetchActiveStorms
NextStorms == CallFetchActiveStorms \/ Return
SpecStorms == Init /\ [][NextStorms]_vars

\* the animation controller of the map
NextAnimation ==
  \/ SelectRandomBalloon
  \/ StartAnimation
  \/ ReplayAnimation
  \/ Animate
  \/ AnimateComplete
  \/ StopAnimation
  \/ ResetAnimation
  \/ Return
SpecAnimation == Init /\ [][NextAnimation]_vars

\* the requests to the balloon-data route
NextRoute == CallBalloonDataRoute \/ Return
SpecRoute == Init /\ [][NextRoute]_vars

\* loadData of the map
NextLoadData == LoadDataStart \/ LoadDataBalloons \/ LoadDataFinish \/ Return
SpecLoadData == Init /\ [][NextLoadData]_vars

\* the calls of analyzeProximity with a malformed cone
NextMalformed == CallAnalyzeProximityMalformed \/ Return
SpecMalformed == Init /\ [][NextMalformed]_vars

\* the calls of the trajectory predictor alone
NextPredictor == CallAnalyzeFutureTrajectoryIntersections \/ Return
SpecPredictor == Init /\ [][NextPredictor]_vars

(***************************************************************************)
(* Properties of analyzeProximity                                          *)
(***************************************************************************)
\* index of the trail of a balloon, of the cone of a storm, in the arguments
TrailIndex(balloonId) ==
  CHOOSE t \in 1 .. Len(balloonTrails) : balloonTrails[t].balloonId = balloonId
ConeIndex(stormName) ==
  CHOOSE c \in 1 .. Len(stormCones) : stormCones[c].properties.stormName = stormName

\* the alerts / intersections of one (trail, storm) pair
AlertsOf(t, c) ==
  SelectSeq(alerts, LAMBDA a : /\ a.balloonId = balloonTrails[t].balloonId
                               /\ a.stormName = stormCones[c].properties.stormName)
IntersectionsOf(t, c) ==
  SelectSeq(intersections, LAMBDA x : /\ x.balloonId = balloonTrails[t].balloonId
                                      /\ x.stormName = stormCones[c].properties.stormName)

\* distance of sample i of trail t to the cone c
SampleDistance(t, c, i) ==
  calculateDistanceToPolygon(balloonTrails[t].points[i].longitude,
                             balloonTrails[t].points[i].latitude, 1,
                             stormCones[c].geometry)

SampleInside(t, c, i) ==
  booleanPointInPolygon(balloonTrails[t].points[i].longitude,
                        balloonTrails[t].points[i].latitude, 1, stormCones[c].geometry)

Pairs == (1 .. Len(balloonTrails)) \X (1 .. Len(stormCones))
SamplesOf(t) == 1 .. Len(balloonTrails[t].points)

\* C1: every alert analyzeProximity returns has closestDistance within the
\* risk threshold of 100 km.
C1_ThresholdConsistency ==
  op = "analyzeProximity" =>
    \A k \in 1 .. Len(alerts) : alerts[k].closestDistance <= RISK_THRESHOLD_KM

\* an alert exactly at the threshold, while another pair, whose closest sample
\* is beyond the threshold, has none
C1_Witness ==
  /\ op = "analyzeProximity"
  /\ \E k \in 1 .. Len(alerts) : alerts[k].closestDistance = RISK_THRESHOLD_KM
  /\ \E pr \in Pairs :
       /\ SamplesOf(pr[1]) # {}
       /\ \A i \in SamplesOf(pr[1]) : SampleDistance(pr[1], pr[2], i) > RISK_THRESHOLD_KM
       /\ AlertsOf(pr[1], pr[2]) = <<>>

\* C2: a (trail, storm) pair has exactly one alert when the least distance of
\* the trail's samples to the cone is within the threshold, and none otherwise;
\* the alert carries that least distance and the timestamp and altitude of a
\* sample that attains it.
C2_OneAlertAtMinimum ==
  op = "analyzeProximity" =>
    \A pr \in Pairs :
      LET t == pr[1]
          c == pr[2]
          within == \E i \in SamplesOf(t) : SampleDistance(t, c, i) <= RISK_THRESHOLD_KM
          found == AlertsOf(t, c)
      IN IF within
           THEN /\ Len(found) = 1
                /\ \A i \in SamplesOf(t) : found[1].closestDistance <= SampleDistance(t, c, i)
                /\ \E i \in SamplesOf(t) :
                     /\ SampleDistance(t, c, i) = found[1].closestDistance
                     /\ balloonTrails[t].points[i].timestamp = found[1].timestamp
                     /\ balloonTrails[t].points[i].altitude = found[1].altitude
           ELSE found = <<>>

\* the least distance is attained by a later sample than the first, and a
\* second pair of the same call stays without alert
C2_Witness ==
  /\ op = "analyzeProximity"
  /\ \E pr \in Pairs :
       /\ Len(AlertsOf(pr[1], pr[2])) = 1
       /\ SampleDistance(pr[1], pr[2], 1) > AlertsOf(pr[1], pr[2])[1].closestDistance
       /\ AlertsOf(pr[1], pr[2])[1].altitude # balloonTrails[pr[1]].points[1].altitude
  /\ \E pr \in Pairs : SamplesOf(pr[1]) # {} /\ AlertsOf(pr[1], pr[2]) = <<>>

\* rank of an alert's pair in the iteration, trail-major and storm-minor
PairRank(a) == (TrailIndex(a.balloonId) - 1) * Len(stormCones) + ConeIndex(a.stormName)

\* C3: the alerts are in ascending order of closestDistance, and alerts of
\* equal closestDistance are in the order of the iteration over the (trail,
\* storm) pairs.
C3_SortedStable ==
  op = "analyzeProximity" =>
    \A i, j \in 1 .. Len(alerts) :
      i < j =>
        /\ alerts[i].closestDistance <= alerts[j].closestDistance
        /\ alerts[i].closestDistance = alerts[j].closestDistance
             => PairRank(alerts[i]) < PairRank(alerts[j])

\* two alerts tie, and the sort has moved an alert
C3_Witness ==
  /\ op = "analyzeProximity"
  /\ \E i, j \in 1 .. Len(alerts) :
       i < j /\ alerts[i].closestDistance = alerts[j].closestDistance
  /\ alerts # proximityPushes(balloonTrails, stormCones)

C5_DistanceCopiesAgree ==
  op = "analyses" =>
    /\ \A pr \in Pairs : \A i \in SamplesOf(pr[1]) :
         LET point == balloonTrails[pr[1]].points[i]
             storm == stormCones[pr[2]]
             ring == IF storm.geometry.type = "Polygon"
                       THEN storm.geometry.coordinates[1]
                       ELSE storm.geometry.coordinates[1][1]
             d == closestLoopDistance(point, storm)
         IN /\ d = SampleDistance(pr[1], pr[2], i)
            /\ SampleInside(pr[1], pr[2], i) => d = 0
            /\ ~SampleInside(pr[1], pr[2], i)
                 => d = LineDistanceKm(point.longitude, point.latitude, 1, ring)
    /\ ~threw =>
         \A k \in 1 .. Len(alerts) : \E m \in 1 .. Len(intersections) :
           /\ intersections[m].balloonId = alerts[k].balloonId
           /\ intersections[m].stormName = alerts[k].stormName
           /\ intersections[m].timestamp = alerts[k].timestamp
           /\ intersections[m].altitude = alerts[k].altitude
           /\ intersections[m].closestDistance = alerts[k].closestDistance
           /\ intersections[m].insideForcastCone = alerts[k].insideForcastCone

\* both analyses returned; one alert is of a sample inside a cone (also inside
\* the second polygon of the MultiPolygon), another of a sample outside
C5_Witness ==
  /\ op = "analyses"
  /\ ~threw
  /\ \E k \in 1 .. Len(alerts) :
       alerts[k].insideForcastCone /\ alerts[k].stormName = "BRAVO"
  /\ \E k \in 1 .. Len(alerts) :
       ~alerts[k].insideForcastCone /\ alerts[k].closestDistance > 0

(***************************************************************************)
(* Properties of analyzeHurricaneIntersections and of the two filters      *)
(***************************************************************************)
\* C6: every intersection analyzeHurricaneIntersections returns, of a sample
\* or of the trajectory predictor, is 'past' exactly when hoursFromNow <= 0
\* and 'future' exactly when hoursFromNow > 0.
C6_PastIffNotAfterNow ==
  op = "analyses" =>
    \A k \in 1 .. Len(intersections) :
      /\ intersections[k].intersectionType \in {"past", "future"}
      /\ intersections[k].intersectionType = "past" <=> intersections[k].hoursFromNow <= 0
      /\ intersections[k].intersectionType = "future" <=> intersections[k].hoursFromNow > 0

\* the result holds a sample before now, one of the present hour and one
\* after now, and a predicted intersection beyond the last sample
C6_Witness ==
  /\ op = "analyses"
  /\ \E k \in 1 .. Len(intersections) : intersections[k].hoursFromNow < 0
  /\ \E k \in 1 .. Len(intersections) :
       intersections[k].hoursFromNow = 0 /\ intersections[k].intersectionType = "past"
  /\ \E k \in 1 .. Len(intersections) : \E t \in 1 .. Len(balloonTrails) :
       /\ intersections[k].balloonId = balloonTrails[t].balloonId
       /\ intersections[k].intersectionType = "future"
       /\ \E i \in SamplesOf(t) :
            intersections[k].timestamp = balloonTrails[t].points[i].timestamp
  /\ \E k \in 1 .. Len(intersections) : \E t \in 1 .. Len(balloonTrails) :
       /\ intersections[k].balloonId = balloonTrails[t].balloonId
       /\ intersections[k].intersectionType = "future"
       /\ \A i \in SamplesOf(t) :
            intersections[k].timestamp > balloonTrails[t].points[i].timestamp

RECURSIVE SubSeqAt(_, _, _)
\* the elements of list at the indices of S from i on, in the order of list
SubSeqAt(list, S, i) ==
  IF i > Len(list) THEN <<>>
  ELSE (IF i \in S THEN <<list[i]>> ELSE <<>>) \o SubSeqAt(list, S, i + 1)

\* C7: the results of getPastIntersections and getFutureIntersections on a
\* list L have no element in common, each keeps the order of L, and every
\* element (index) of L is in exactly one of them.
C7_FiltersPartition ==
  op = "filters" =>
    /\ \E S \in SUBSET (1 .. Len(intersections)) :
         /\ pastList = SubSeqAt(intersections, S, 1)
         /\ futureList = SubSeqAt(intersections, (1 .. Len(intersections)) \ S, 1)
    /\ \A i \in 1 .. Len(pastList) : \A j \in 1 .. Len(futureList) :
         pastList[i] # futureList[j]

\* a list with a future element between two past ones, in which a past
\* element is after now and a future one before
C7_Witness ==
  /\ op = "filters"
  /\ Len(intersections) = 3
  /\ intersections[1].intersectionType = "past"
  /\ intersections[2].intersectionType = "future"
  /\ intersections[3].intersectionType = "past"
  /\ intersections[1].hoursFromNow > 0
  /\ intersections[2].hoursFromNow < 0
  /\ Len(pastList) = 2
  /\ Len(futureList) = 1

\* the filters on what the analysis returned, both lists with elements
C7_WitnessAnalysed ==
  /\ op = "filters"
  /\ balloonTrails # <<>>
  /\ pastList # <<>>
  /\ futureList # <<>>

\* samples of trail t within the threshold of cone c
Qualifying(t, c) == { i \in SamplesOf(t) : SampleDistance(t, c, i) <= RISK_THRESHOLD_KM }

\* what the predictor adds for the pair
PredictedOf(t, c) ==
  analyzeFutureTrajectoryIntersections(balloonTrails[t], stormCones[c], stormTracks,
                                       RISK_THRESHOLD_KM, now).list

\* C8: for every (trail, storm) pair the result of analyzeHurricaneIntersections
\* holds, beside what the predictor adds, as many intersections as the trail
\* has samples within the threshold of the cone, and every such sample has its
\* own intersection: none is merged with another of the same balloon.
C8_OnePerQualifyingSample ==
  (op = "analyses" /\ ~threw) =>
    \A pr \in Pairs :
      LET t == pr[1]
          c == pr[2]
          found == IntersectionsOf(t, c)
      IN /\ Len(found) = Cardinality(Qualifying(t, c)) + Len(PredictedOf(t, c))
         /\ \A i \in Qualifying(t, c) : \E m \in 1 .. Len(found) :
              /\ found[m].timestamp = balloonTrails[t].points[i].timestamp
              /\ found[m].altitude = balloonTrails[t].points[i].altitude
              /\ found[m].closestDistance = SampleDistance(t, c, i)
              /\ found[m].hoursFromNow = balloonTrails[t].points[i].timestamp - now

\* a pair with two samples within the threshold and one beyond it, and no
\* prediction for it: the result has exactly two intersections of the pair
C8_Witness ==
  /\ op = "analyses"
  /\ ~threw
  /\ \E pr \in Pairs :
       /\ Cardinality(Qualifying(pr[1], pr[2])) = 2
       /\ Len(balloonTrails[pr[1]].points) = 3
       /\ PredictedOf(pr[1], pr[2]) = <<>>
       /\ Len(IntersectionsOf(pr[1], pr[2])) = 2

(***************************************************************************)
(* Properties of analyzeFutureTrajectoryIntersections                      *)
(***************************************************************************)
\* C9, as claimed: the predictor returns the empty list for every trail of
\* fewer than 3 samples.
C9_FewerThanThreeSamplesEmpty ==
  op = "analyzeFutureTrajectoryIntersections" =>
    (Len(balloonTrails[1].points) < 3 => predicted = <<>>)

\* the floor the code has instead of the one of C9: the predictor returns the
\* empty list, without exception, for every trail of fewer than 2 samples,
\* whatever the cone and the track.
C9_FewerThanTwoSamplesEmpty ==
  op = "analyzeFutureTrajectoryIntersections" =>
    (Len(balloonTrails[1].points) < 2 => (predicted = <<>> /\ ~threw))

\* the predictor abstained on one sample that is inside the cone, with a track
\* of the storm at hand
C9_Witness ==
  /\ op = "analyzeFutureTrajectoryIntersections"
  /\ Len(balloonTrails[1].points) = 1
  /\ SampleInside(1, 1, 1)
  /\ findTrack(stormTracks, stormCones[1].properties.stormName, 1).found
  /\ predicted = <<>>

\* hours of the horizon at which the pair of the call is within the threshold
QualifyingHours ==
  LET points == balloonTrails[1].points
      n == Len(points)
      timeDiff == points[n].timestamp - points[n - 1].timestamp
  IN { hours \in 1 .. HorizonHours :
         futureStep(points[n], stormCones[1],
                    findTrack(stormTracks, stormCones[1].properties.stormName, 1),
                    timeDiff,
                    points[n].longitude - points[n - 1].longitude,
                    points[n].latitude - points[n - 1].latitude,
                    hours).minDistance <= RISK_THRESHOLD_KM }

\* C10: one call of the predictor for a (trail, storm) pair returns at most
\* one intersection, with or without a track of the storm's name.
C10_AtMostOnePredicted ==
  op = "analyzeFutureTrajectoryIntersections" => Len(predicted) <= 1

\* one intersection returned although several hours qualify, the storm having
\* a track of its name
C10_Witness ==
  /\ op = "analyzeFutureTrajectoryIntersections"
  /\ Len(predicted) = 1
  /\ Len(balloonTrails[1].points) >= 2
  /\ balloonTrails[1].points[Len(balloonTrails[1].points)].timestamp
       # balloonTrails[1].points[Len(balloonTrails[1].points) - 1].timestamp
  /\ Cardinality(QualifyingHours) > 1
  /\ findTrack(stormTracks, stormCones[1].properties.stormName, 1).found

\* the same for a storm without track
C10_WitnessNoTrack ==
  /\ op = "analyzeFutureTrajectoryIntersections"
  /\ Len(predicted) = 1
  /\ Len(balloonTrails[1].points) >= 2
  /\ balloonTrails[1].points[Len(balloonTrails[1].points)].timestamp
       # balloonTrails[1].points[Len(balloonTrails[1].points) - 1].timestamp
  /\ Cardinality(QualifyingHours) > 1
  /\ ~findTrack(stormTracks, stormCones[1].properties.stormName, 1).found

(***************************************************************************)
(* The predictor and the track of the storm                                *)
(***************************************************************************)
\* the trail, the cone and the track of the storm's name in a call of the
\* predictor
PredictorCall == op = "analyzeFutureTrajectoryIntersections"
CallTrail == balloonTrails[1]
CallLast == CallTrail.points[Len(CallTrail.points)]
CallStorm == stormCones[1]
CallTrack == findTrack(stormTracks, CallStorm.properties.stormName, 1)

\* the call computed a velocity, and a finite one
HasVelocity == velocity # <<>> /\ velocity.timeDiff # 0

\* distances, in km, of the position extrapolated by `hours` hours (0: the
\* last sample) to the track and to the cone
TrackDistanceAt(hours) ==
  LineDistanceKm(CallLast.longitude * velocity.timeDiff + velocity.lonDelta * hours,
                 CallLast.latitude * velocity.timeDiff + velocity.latDelta * hours,
                 velocity.timeDiff, CallTrack.geometry.coordinates)
ConeDistanceAt(hours) ==
  calculateDistanceToPolygon(
    CallLast.longitude * velocity.timeDiff + velocity.lonDelta * hours,
    CallLast.latitude * velocity.timeDiff + velocity.latDelta * hours,
    velocity.timeDiff, CallStorm.geometry)

\* the least distance to the track over the hours of the horizon
MinTrackDistance ==
  CHOOSE d \in { TrackDistanceAt(hours) : hours \in 1 .. HorizonHours } :
    \A hours \in 1 .. HorizonHours : d <= TrackDistanceAt(hours)

\* the vector from the last sample to the nearest point of the segment a-b,
\* times the positive number den
TowardsSegment(px, py, ax, ay, bx, by) ==
  LET wx == bx - ax
      wy == by - ay
      L == wx * wx + wy * wy
      d == (px - ax) * wx + (py - ay) * wy
  IN IF L = 0 \/ d <= 0 THEN [x |-> ax - px, y |-> ay - py]
     ELSE IF d >= L THEN [x |-> bx - px, y |-> by - py]
     ELSE [x |-> (ax - px) * L + d * wx, y |-> (ay - py) * L + d * wy]

\* the same to the nearest point of the track
TowardsTrack ==
  LET line == CallTrack.geometry.coordinates
      px == CallLast.longitude
      py == CallLast.latitude
      dist(i) == SegmentDistSq(px, py, line[i][1], line[i][2],
                               line[i + 1][1], line[i + 1][2])
      best == CHOOSE i \in 1 .. (Len(line) - 1) :
                \A k \in 1 .. (Len(line) - 1) : dist(i) <= dist(k)
  IN TowardsSegment(px, py, line[best][1], line[best][2],
                    line[best + 1][1], line[best + 1][2])

\* vector convergence c > 0.9: the cosine of the angle between the velocity
\* and the direction to the track (no direction, no convergence)
ConvergenceAboveNineTenths ==
  LET vx == velocity.lonDelta
      vy == velocity.latDelta
      dx == TowardsTrack.x
      dy == TowardsTrack.y
      dot == vx * dx + vy * dy
  IN /\ dot > 0
     /\ 100 * dot * dot > 81 * (vx * vx + vy * vy) * (dx * dx + dy * dy)

\* the four conditions of the gate
ConvergenceGate ==
  /\ MinTrackDistance <= RISK_THRESHOLD_KM
  /\ ConvergenceAboveNineTenths
  /\ MinTrackDistance < TrackDistanceAt(0)
  /\ 10 * MinTrackDistance < 8 * TrackDistanceAt(0)

\* C11, as claimed: with a track of the storm's name the predictor emits an
\* intersection exactly when the four conditions of the convergence gate hold
\* (the distances taken at the hours the code steps through).
C11_EmitsIffConvergenceGate ==
  (PredictorCall /\ HasVelocity /\ CallTrack.found) =>
    (predicted # <<>> <=> ConvergenceGate)

\* the extrapolated positions are all farther from the track than the last
\* sample, which is about 500 km from it
DivergingFromTrack ==
  /\ TrackDistanceAt(0) >= 5 * RISK_THRESHOLD_KM - GridKm
  /\ TrackDistanceAt(0) <= 5 * RISK_THRESHOLD_KM + GridKm
  /\ \A hours \in 1 .. HorizonHours : TrackDistanceAt(hours) > TrackDistanceAt(0)

\* C12, as claimed: a balloon that moves monotonically away from the storm's
\* track, about 500 km from it, gets no future intersection from the
\* predictor.
C12_DivergingBalloonNoIntersection ==
  (PredictorCall /\ HasVelocity /\ CallTrack.found /\ DivergingFromTrack) =>
    predicted = <<>>

\* C13, as claimed: an intersection the predictor emits for a storm that has a
\* track of its name is not flagged inside the forecast cone, and its
\* closestDistance is the least extrapolated distance to the track over the
\* whole horizon.
C13_TrackIntersectionAtMinimum ==
  (PredictorCall /\ HasVelocity /\ CallTrack.found) =>
    \A k \in 1 .. Len(predicted) :
      /\ ~predicted[k].insideForcastCone
      /\ predicted[k].closestDistance = MinTrackDistance

\* the hours of the horizon whose extrapolated position is within the
\* threshold of the cone
ConeHours == { hours \in 1 .. HorizonHours : ConeDistanceAt(hours) <= RISK_THRESHOLD_KM }

\* C14: without a track of the storm's name the predictor returns exactly one
\* future intersection, at the smallest hour of 1..48 whose extrapolated
\* position is within the threshold of the cone, flagged inside the forecast
\* cone; it returns none when there is no such hour (or no velocity to
\* extrapolate with).
C14_NoTrackFirstCrossing ==
  (PredictorCall /\ ~CallTrack.found) =>
    IF HasVelocity /\ ConeHours # {}
      THEN /\ Len(predicted) = 1
           /\ predicted[1].intersectionType = "future"
           /\ predicted[1].hoursFromNow \in ConeHours
           /\ \A hours \in ConeHours : predicted[1].hoursFromNow <= hours
           /\ predicted[1].insideForcastCone
           /\ predicted[1].closestDistance = ConeDistanceAt(predicted[1].hoursFromNow)
      ELSE predicted = <<>>

\* a track of another storm is at hand and the storm has none; the hour 1 is
\* beyond the threshold, two later hours are within it, and the intersection
\* is at the first of them
C14_Witness ==
  /\ PredictorCall
  /\ stormTracks # <<>>
  /\ ~CallTrack.found
  /\ HasVelocity
  /\ 1 \notin ConeHours
  /\ Cardinality(ConeHours) >= 2
  /\ Len(predicted) = 1
  /\ predicted[1].hoursFromNow > 1

\* C15: every intersection the predictor returns is 'future', has hoursFromNow
\* between 1 and 48, a timestamp of that many hours after the time of the
\* analysis, and the altitude of the last sample of the trail.
C15_PredictedWithinHorizon ==
  PredictorCall =>
    \A k \in 1 .. Len(predicted) :
      /\ predicted[k].intersectionType = "future"
      /\ predicted[k].hoursFromNow \in 1 .. HorizonHours
      /\ predicted[k].timestamp = now + predicted[k].hoursFromNow
      /\ predicted[k].altitude = CallLast.altitude

\* an intersection at the last hour of the horizon, of a trail of three
\* samples whose last one is not of the hour of the analysis
C15_Witness ==
  /\ PredictorCall
  /\ Len(CallTrail.points) = 3
  /\ Len(predicted) = 1
  /\ predicted[1].hoursFromNow = HorizonHours
  /\ CallLast.timestamp # now

\* the samples the mean velocity is taken over: the last 5, or all of them
MeanWindow == Min(5, Len(CallTrail.points))
MeanFirst == CallTrail.points[Len(CallTrail.points) - MeanWindow + 1]

\* C16, as claimed: the velocity of the predictor is the mean of the latitude
\* and longitude differences of the consecutive pairs of the last up-to-5
\* samples, that is their sum (the difference between the last and the first
\* sample of the window) divided by the sample count minus one, and not by the
\* hours between the timestamps.
C16_VelocityIsMeanOfDeltas ==
  (PredictorCall /\ HasVelocity) =>
    /\ velocity.latDelta * (MeanWindow - 1)
         = (CallLast.latitude - MeanFirst.latitude) * velocity.timeDiff
    /\ velocity.lonDelta * (MeanWindow - 1)
         = (CallLast.longitude - MeanFirst.longitude) * velocity.timeDiff

\* the tracks of the call that have the name of the storm
TracksOfStorm ==
  SelectSeq(stormTracks,
            LAMBDA track : track.properties.stormName = CallStorm.properties.stormName)

\* some extrapolated position is within the threshold of a track of the call
NearSomeTrack ==
  \E i \in 1 .. Len(stormTracks) : \E hours \in 1 .. HorizonHours :
    LineDistanceKm(CallLast.longitude * velocity.timeDiff + velocity.lonDelta * hours,
                   CallLast.latitude * velocity.timeDiff + velocity.latDelta * hours,
                   velocity.timeDiff, stormTracks[i].geometry.coordinates)
      <= RISK_THRESHOLD_KM

\* C17: the predictor uses a track only when its stormName equals the one of
\* the cone: what it returns is what it returns for the tracks of that name
\* alone, and with no track of that name what it returns for the empty track
\* list, without exception of its own.
C17_TrackByExactName ==
  PredictorCall =>
    LET r == analyzeFutureTrajectoryIntersections(
               CallTrail, CallStorm, TracksOfStorm, RISK_THRESHOLD_KM, now)
    IN  /\ predicted = r.list
        /\ threw = r.threw
        /\ (TracksOfStorm = <<>> /\ HasVelocity /\ ConeHours = {}) => predicted = <<>>

\* a track of another name passes within the threshold of the extrapolated
\* positions, the cone does not, and the predictor returns nothing
C17_Witness ==
  /\ PredictorCall
  /\ stormTracks # <<>>
  /\ TracksOfStorm = <<>>
  /\ HasVelocity
  /\ NearSomeTrack
  /\ ConeHours = {}
  /\ predicted = <<>>
  /\ ~threw

\* ---------------------------------------------------------------------
\* The clock and the failures

\* C18: the result of analyzeHurricaneIntersections and of
\* getRecentTrajectory is a function of the caller's trails, cones, tracks,
\* threshold and hours: the same call under any other wall clock returns
\* the same.
C18_ResultIndependentOfClock ==
  /\ op = "analyses" =>
       \A clock \in Nows :
         LET r == analyzeHurricaneIntersections(balloonTrails, stormCones, stormTracks,
                                                RISK_THRESHOLD_KM, clock)
         IN  r.list = intersections /\ r.threw = threw
  /\ op = "getRecentTrajectory" =>
       \A clock \in Nows :
         getRecentTrajectory(balloonTrails[1], recent[1], clock) = recent[2]

\* C20: no call fails on a trail of the expected kinds, equal consecutive
\* timestamps included: analyzeHurricaneIntersections returns its list, the
\* predictor returns its list, and the velocity the predictor computes is
\* never a division by a time difference of zero.
C20_NoExceptionForEdgeCases ==
  /\ op = "analyses" => ~threw
  /\ PredictorCall => ~threw
  /\ (PredictorCall /\ velocity # <<>>) => velocity.timeDiff # 0

\* the cones of the call that have an empty exterior ring
EmptyRingCones ==
  { c \in 1 .. Len(stormCones) : exteriorRing(stormCones[c].geometry) = <<>> }

\* the exception names the storm
NamesStorm(e, stormName) == \E i \in 1 .. Len(e.message) : e.message[i] = stormName

\* C19: a call of analyzeProximity with a cone whose exterior ring is empty
\* ends with a GeometryError that names the storm of that cone.
C19_EmptyRingGeometryError ==
  (op = "analyzeProximity" /\ EmptyRingCones # {}) =>
    /\ threw
    /\ error.name = "GeometryError"
    /\ \E c \in EmptyRingCones : NamesStorm(error, stormCones[c].properties.stormName)

\* ---------------------------------------------------------------------
\* The projections of the results

\* positions in the trail list of the call whose balloon has an intersection
\* of the type of the call
TypedTrails ==
  { i \in 1 .. Len(balloonTrails) :
      \E j \in 1 .. Len(intersections) :
        /\ intersections[j].balloonId = balloonTrails[i].balloonId
        /\ intersections[j].intersectionType = type }

\* the k-th of these positions
TypedTrail(k) ==
  CHOOSE i \in TypedTrails : Cardinality({ j \in TypedTrails : j < i }) = k - 1

\* C21: getBalloonsByIntersectionType returns the trails whose balloonId has
\* an intersection of the given type, in the order of the trail list, one per
\* occurrence in that list; a trail whose intersections are all of the other
\* type is left out.
C21_BalloonsOfType ==
  op = "getBalloonsByIntersectionType" =>
    /\ Len(filteredTrails) = Cardinality(TypedTrails)
    /\ \A k \in 1 .. Len(filteredTrails) : filteredTrails[k] = balloonTrails[TypedTrail(k)]

\* a call that returns a trail and leaves out a trail all of whose
\* intersections are of the other type
C21_Witness ==
  /\ op = "getBalloonsByIntersectionType"
  /\ filteredTrails # <<>>
  /\ \E i \in 1 .. Len(balloonTrails) :
       /\ i \notin TypedTrails
       /\ \E j \in 1 .. Len(intersections) :
            intersections[j].balloonId = balloonTrails[i].balloonId
       /\ \A k \in 1 .. Len(filteredTrails) :
            filteredTrails[k].balloonId # balloonTrails[i].balloonId

\* the k-th smallest element of a set of positions
KthOf(S, k) == CHOOSE i \in S : Cardinality({ j \in S : j < i }) = k - 1

\* the trail handed to getRecentTrajectory
PassedTrail == passed.balloonTrails[1]

\* positions of its points that are not older than the hours of the call
RecentPoints ==
  { i \in 1 .. Len(PassedTrail.points) :
      PassedTrail.points[i].timestamp >= now - recent[1] }

\* C22: getRecentTrajectory returns a trail with the balloonId and the color of
\* the trail handed in and, in their order, the points of it that are not
\* older than `hours` at the clock of the call; the trail handed in is what it
\* was, and so are the lists handed to getPastIntersections,
\* getFutureIntersections and getBalloonsByIntersectionType.
C22_ProjectionsDoNotMutate ==
  /\ op = "getRecentTrajectory" =>
       /\ recent[2].balloonId = PassedTrail.balloonId
       /\ recent[2].color = PassedTrail.color
       /\ Len(recent[2].points) = Cardinality(RecentPoints)
       /\ \A k \in 1 .. Len(recent[2].points) :
            recent[2].points[k] = PassedTrail.points[KthOf(RecentPoints, k)]
       /\ balloonTrails = passed.balloonTrails
  /\ op = "filters" => intersections = passed.intersections
  /\ op = "getBalloonsByIntersectionType" =>
       /\ balloonTrails = passed.balloonTrails
       /\ intersections = passed.intersections

\* a call of getRecentTrajectory that keeps a point at the cutoff and drops an
\* older one
C22_Witness ==
  /\ op = "getRecentTrajectory"
  /\ \E i \in RecentPoints : PassedTrail.points[i].timestamp = now - recent[1]
  /\ \E i \in 1 .. Len(PassedTrail.points) : i \notin RecentPoints
  /\ Len(recent[2].points) < Len(balloonTrails[1].points)

\* ---------------------------------------------------------------------
\* Trails inside a cone

\* C23: a trail with samples, all of them inside the cone of a storm, has
\* exactly one alert for that storm, with closestDistance 0 and
\* insideForcastCone true; and every alert with insideForcastCone true has
\* closestDistance 0.
C23_InsideConeZeroDistance ==
  op = "analyzeProximity" =>
    /\ \A pr \in Pairs :
         (/\ SamplesOf(pr[1]) # {}
          /\ \A i \in SamplesOf(pr[1]) : SampleInside(pr[1], pr[2], i)) =>
           /\ Len(AlertsOf(pr[1], pr[2])) = 1
           /\ AlertsOf(pr[1], pr[2])[1].closestDistance = 0
           /\ AlertsOf(pr[1], pr[2])[1].insideForcastCone
    /\ \A k \in 1 .. Len(alerts) :
         alerts[k].insideForcastCone => alerts[k].closestDistance = 0

\* a trail of several samples, all inside a cone, with its alert, in a call
\* that also returns an alert of a balloon outside its cone
C23_Witness ==
  /\ op = "analyzeProximity"
  /\ \E pr \in Pairs :
       /\ Cardinality(SamplesOf(pr[1])) >= 2
       /\ \A i \in SamplesOf(pr[1]) : SampleInside(pr[1], pr[2], i)
       /\ Len(AlertsOf(pr[1], pr[2])) = 1
       /\ AlertsOf(pr[1], pr[2])[1].insideForcastCone
  /\ \E k \in 1 .. Len(alerts) :
       ~alerts[k].insideForcastCone /\ alerts[k].closestDistance > 0

\* ---------------------------------------------------------------------
\* The trails fetchBalloonData returns

\* the hours of the call whose request succeeded with an array
ArrayHours ==
  { hour \in 0 .. Len(responses) - 1 :
      responses[hour + 1].ok /\ responses[hour + 1].isArray }

\* the balloons of the call: the records of the first hour that succeeded
FetchedBalloons ==
  LET succeeded == { hour \in 0 .. Len(responses) - 1 : responses[hour + 1].ok }
  IN IF succeeded = {} THEN {}
     ELSE LET first == CHOOSE hour \in succeeded : \A other \in succeeded : hour <= other
          IN IF responses[first + 1].isArray
               THEN 0 .. Len(responses[first + 1].data) - 1
               ELSE {}

\* C24: every trail fetchBalloonData returns has at least two points, in
\* non-decreasing order of timestamp, each carrying the balloonId of the
\* trail, whichever of the hourly requests succeeded.
C24_FetchedTrailsWellFormed ==
  op = "fetchBalloonData" =>
    \A t \in 1 .. Len(validTrails) :
      /\ Len(validTrails[t].points) >= 2
      /\ \A i, j \in 1 .. Len(validTrails[t].points) :
           i < j => validTrails[t].points[i].timestamp <= validTrails[t].points[j].timestamp
      /\ \A i \in 1 .. Len(validTrails[t].points) :
           validTrails[t].points[i].balloonId = validTrails[t].balloonId

\* a request failed, a trail is returned, and another balloon of the first
\* hour is not, having got fewer than two points
C24_Witness ==
  /\ op = "fetchBalloonData"
  /\ \E h \in 1 .. Len(responses) : ~responses[h].ok
  /\ Len(validTrails) = 1
  /\ Cardinality(FetchedBalloons) = 2

\* a record with numeric latitude and longitude within their ranges
GoodRecord(record) ==
  /\ Len(record) >= 3
  /\ record[1].kind = "number" /\ record[1].v >= -90 /\ record[1].v <= 90
  /\ record[2].kind = "number" /\ record[2].v >= -180 /\ record[2].v <= 180

\* the hours of the call that have a good record for a balloon
GoodHours(balloonIndex) ==
  { hour \in ArrayHours :
      /\ balloonIndex < Len(responses[hour + 1].data)
      /\ GoodRecord(responses[hour + 1].data[balloonIndex + 1]) }

\* the trails returned for a balloon
FetchedTrailsOf(balloonIndex) ==
  SelectSeq(validTrails, LAMBDA trail : trail.balloonId = FetchedBalloonId(balloonIndex))

\* C25: no point of a trail fetchBalloonData returns has a latitude or
\* longitude that is not a number, is NaN or is out of range, and a record
\* that has one is skipped alone: each balloon keeps the points of every hour
\* that has a good record for it.
C25_InvalidRecordsSkippedAlone ==
  op = "fetchBalloonData" =>
    /\ \A t \in 1 .. Len(validTrails) : \A i \in 1 .. Len(validTrails[t].points) :
         LET point == validTrails[t].points[i]
         IN /\ point.latitude.kind = "number" /\ point.longitude.kind = "number"
            /\ point.latitude.v >= -90 /\ point.latitude.v <= 90
            /\ point.longitude.v >= -180 /\ point.longitude.v <= 180
    /\ \A b \in FetchedBalloons :
         IF Cardinality(GoodHours(b)) < 2 THEN FetchedTrailsOf(b) = <<>>
         ELSE /\ Len(FetchedTrailsOf(b)) = 1
              /\ Len(FetchedTrailsOf(b)[1].points) = Cardinality(GoodHours(b))
              /\ \A hour \in GoodHours(b) :
                   \E i \in 1 .. Len(FetchedTrailsOf(b)[1].points) :
                     LET point == FetchedTrailsOf(b)[1].points[i]
                         record == responses[hour + 1].data[b + 1]
                     IN /\ point.timestamp = now - ((Len(responses) - 1) - hour)
                        /\ point.latitude = record[1]
                        /\ point.longitude = record[2]
                        /\ point.altitude = record[3]

\* an hour whose record of the first balloon is skipped gives its point to
\* the second balloon, and the first balloon keeps the points of other hours
C25_Witness ==
  /\ op = "fetchBalloonData"
  /\ Len(validTrails) = 2
  /\ \E hour \in GoodHours(1) :
       /\ hour \notin GoodHours(0)
       /\ responses[hour + 1].data[1] \in
            { << NaN, Num(-95), Num(15000) >>, << Num(20), Num(181), Num(15000) >> }
  /\ \E i \in 1 .. Len(validTrails[2].points) :
       validTrails[2].points[i].latitude = Num(90)

\* ---------------------------------------------------------------------
\* loadData of the map

\* C26: when loadData has finished, isLoading is false and the map has
\* trails, on every path; they are mock trails whenever the API delivered
\* none or the try block threw.  isLoading is true all the while before.
C26_LoadEndsWithData ==
  /\ op = "loaded" =>
       /\ ~isLoading
       /\ balloonTrails # <<>>
       /\ ((config.useRealBalloons /\ balloons = <<>>) \/ threw) =>
            balloonTrails \in MockTrailLists
  /\ op \in {"loadData awaits balloons", "loadData awaits storms"} => isLoading

\* a load in which the API delivered trails and an analysis threw
C26_WitnessException ==
  /\ op = "loaded"
  /\ config.useRealBalloons
  /\ balloons # <<>>
  /\ threw
  /\ balloonTrails \in MockTrailLists

\* a load in which the API delivered no trail
C26_Witness ==
  /\ op = "loaded"
  /\ config.useRealBalloons
  /\ balloons = <<>>
  /\ ~threw
  /\ ~isLoading
  /\ balloonTrails \in MockTrailLists
  /\ intersections # <<>>

\* ---------------------------------------------------------------------
\* The order of the intersections

\* C27: the list analyzeHurricaneIntersections returns is in ascending order
\* of hoursFromNow, whatever pair or source an intersection comes from, so no
\* 'future' intersection precedes a 'past' one.
C27_SortedByHoursFromNow ==
  (op = "analyses" /\ ~threw) =>
    \A i, j \in 1 .. Len(intersections) :
      i < j =>
        /\ intersections[i].hoursFromNow <= intersections[j].hoursFromNow
        /\ ~(/\ intersections[i].intersectionType = "future"
             /\ intersections[j].intersectionType = "past")

\* a past intersection first, and an intersection of the predictor before a
\* later sample of the trail
C27_Witness ==
  /\ op = "analyses"
  /\ ~threw
  /\ Len(intersections) >= 3
  /\ intersections[1].intersectionType = "past"
  /\ \E pr \in Pairs : \E j, k \in 1 .. Len(intersections) :
       /\ j < k
       /\ PredictedOf(pr[1], pr[2]) # <<>>
       /\ intersections[j] = PredictedOf(pr[1], pr[2])[1]
       /\ intersections[k].hoursFromNow > intersections[j].hoursFromNow
       /\ \E i \in SamplesOf(pr[1]) :
            balloonTrails[pr[1]].points[i].timestamp = intersections[k].timestamp

\* ---------------------------------------------------------------------
\* The storms fetchActiveStorms returns

\* the names of the storm objects of the list
ListedNames ==
  { activeStorms.storms[i].name :
      i \in { j \in 1 .. Len(activeStorms.storms) : activeStorms.storms[j].valid } }

Range(seq) == { seq[i] : i \in 1 .. Len(seq) }

\* C28: fetchActiveStorms answers isRealData = true only with one cone or
\* more, all of storms of the NHC list and none of the mock set, and
\* isRealData = false with the whole mock set in every other outcome; its
\* result never mixes the two, and every track of a real result has a cone
\* of the same stormName in it.
C28_RealOrMockStorms ==
  op = "fetchActiveStorms" =>
    /\ fetchedStorms.isRealData <=> (activeStorms.kind = "list" /\ ListedNames # {})
    /\ fetchedStorms.isRealData =>
         /\ fetchedStorms.cones # <<>>
         /\ \A cone \in Range(fetchedStorms.cones) :
              /\ cone.properties.stormName \in ListedNames
              /\ cone \notin Range(MockStormData.cones)
         /\ \A track \in Range(fetchedStorms.tracks) :
              /\ track \notin Range(MockStormData.tracks)
              /\ \E cone \in Range(fetchedStorms.cones) :
                   cone.properties.stormName = track.properties.stormName
    /\ ~fetchedStorms.isRealData =>
         /\ fetchedStorms.cones = MockStormData.cones
         /\ fetchedStorms.tracks = MockStormData.tracks

\* a list with an entry that fails and a storm with a track: real data, one
\* cone and its track
C28_Witness ==
  /\ op = "fetchActiveStorms"
  /\ activeStorms.kind = "list"
  /\ \E i \in 1 .. Len(activeStorms.storms) : ~activeStorms.storms[i].valid
  /\ fetchedStorms.isRealData
  /\ Len(fetchedStorms.cones) = 1
  /\ Len(fetchedStorms.tracks) = 1

\* a list all of whose entries fail: the mock set
C28_WitnessAllFail ==
  /\ op = "fetchActiveStorms"
  /\ activeStorms.kind = "list"
  /\ activeStorms.storms # <<>>
  /\ ListedNames = {}
  /\ ~fetchedStorms.isRealData
  /\ fetchedStorms.cones = MockStormData.cones

\* ---------------------------------------------------------------------
\* The animation controller

\* C29: over any sequence of Start, Stop, Replay and Reset and of timer
\* firings at most one animation loop is live, and stopAnimation cancels
\* every pending frame: after it, and as long as nothing is animating, no
\* timeout is pending whose callback would update animationProgress or move
\* the map.
C29_OneAnimationLoop ==
  /\ Cardinality(timers) <= 1
  /\ op \in {"stopAnimation", "reset"} => timers = {}
  /\ ~isAnimating => timers = {}

\* a running animation, its next frame pending, was stopped
C29_Witness ==
  /\ op = "stopAnimation"
  /\ timers = {}
  /\ animationRef = 0
  /\ camera = "home"
  /\ ~isAnimating

\* ---------------------------------------------------------------------
\* The balloon-data route

\* the names 00 .. 23
HourFileNames ==
  { <<a, b>> : a \in {"0", "1"}, b \in DOMAIN DigitValue }
  \cup { <<"2", b>> : b \in {"0", "1", "2", "3"} }

\* the parameter is one or two decimal digits that stand for 0 .. 23
DenotesHour(hour) ==
  /\ hour.present
  /\ Len(hour.value) \in {1, 2}
  /\ \A i \in 1 .. Len(hour.value) : IsDigit(hour.value[i])
  /\ decimalValue(hour.value) <= 23

\* C30: the route answers 400 and asks nothing of the upstream service when
\* the hour parameter is missing or does not denote an hour of 0 .. 23, and
\* every file it asks for is named by two decimal digits, 00 .. 23.
C30_RouteValidatesHour ==
  op = "balloonDataRoute" =>
    /\ ~DenotesHour(hourParameter) =>
         (routeAnswer.status = 400 /\ ~routeAnswer.upstream.requested)
    /\ routeAnswer.upstream.requested =>
         routeAnswer.upstream.fileName \in HourFileNames

====
